---- MODULE Spec2Model ----
(***************************************************************************)
(* A model of MuchFunApp (src/muchfun.py): the audio worker thread, the    *)
(* pattern worker thread, the Tk thread (operator handlers, the drain of   *)
(* ui_update_queue, the after(0) callbacks), the asyncio loop thread that  *)
(* runs send_intensity / device.stop(), and the actuator sink.             *)
(*                                                                         *)
(* Units.  Intensities and band energies are fixed-point thousandths       *)
(* (1.0 = SCALE).  Slider values are percent (0..100), as the Tk variables *)
(* hold them.  Times are milliseconds.  The momentum velocity is           *)
(* thousandths per second.  Divisions round towards minus infinity.        *)
(***************************************************************************)
EXTENDS Integers, Sequences, FiniteSets, TLC

\* the intensity 1.0, as in max(0.0, min(1.0, result)); intensities are kept in
\* thousandths
SCALE == 1000

\* ---- program constants ----
UpdateRate == 5                 \* self.update_rate = 5.0
SendIntervalMs == 1000 \div UpdateRate   \* send_interval = 1.0 / self.update_rate
CapMilli == 800                 \* min(0.8, smoothed_intensity)
CutoffMilli == 10               \* cutoff_threshold = 0.01
NoiseFloorMilli == 20           \* noise_floor = 0.02
AttackTimeMs == 50              \* self.attack_time = 0.05
DecayTimeMs == 100              \* self.decay_time = 0.1
DefaultStrengthMilli == 300     \* self.smoothing_strength = 0.3
DefaultSensitivity == 50        \* self._cached_sensitivity = 50.0
DefaultPatternIntensity == 50   \* self.pattern_intensity = tk.DoubleVar(value=50.0)
DefaultPatternRate == 50        \* self.pattern_rate = tk.DoubleVar(value=50.0)

\* ---- bounds of the model ----
MaxQueue == 2                   \* entries ui_update_queue holds in the model
MaxAsync == 1                   \* coroutines pending on the asyncio loop in the model
MaxOps == 3                     \* actions the operator takes in one run
MaxFrames == 2                  \* frames the audio source delivers in one run
MaxCommands == 1                \* commands counted between two statistics rollups

\* ---- inputs ----
SmoothingTypes == {"none", "simple", "adaptive", "momentum"}
\* analyzer results for a frame: <<bass, mids, treble>>, all zero or summing to SCALE
AnalyzerOutputs == { <<0, 0, 0>>, <<200, 600, 200>> }
\* the frames of a source that is never silent
LoudOutputs == { <<200, 600, 200>> }
\* values generate_pattern_value returns, as sampled by the pattern worker
PatternBaseValues == {0, SCALE}
\* positions the operator moves the manual slider to (percent)
ManualPositions == {0, 40}
\* the two ends of the manual slider (percent)
FullManualPositions == {0, 100}
\* measured time between two audio iterations (ms)
AudioDeltaTimes == {50}
\* the wider inputs of the smoother's own specification
WideAnalyzerOutputs == { <<0, 0, 0>>, <<200, 600, 200>>, <<0, SCALE, 0>>, <<30, 30, 940>> }
WideDeltaTimes == {1, 20, 50, 400, 2000}
StrengthPositions == {0, 50, 90, 100}
SensitivityValues == {50, 100}
FocusValues == {0 - SCALE, 0, SCALE}
\* one step of the model's clock
TickMs == SendIntervalMs \div 2

\* audio_data while the frame read is not represented (its analysis is drawn directly)
NoData == [rms |-> 0, mags |-> <<>>]
StopCmd == 0 - 1                \* the device.stop() coroutine in async_q
\* since_type_change when no waveform change awaits its first sample
NoChange == 0 - 1
\* the waveforms the operator switches between (of "wave", "pulse", "ramp", ...)
PatternTypes == {"wave", "pulse"}

VARIABLES
  \* Tk thread
  ops,                    \* operator actions taken so far
  ui_pc,                  \* "idle" | "drain" | "es_cleanup": where the Tk thread is
  audio_enabled_var, pattern_enabled_var,   \* the checkbuttons' BooleanVars
  intensity,              \* self.intensity (manual slider, percent)
  manual_intensity,       \* self.manual_intensity
  connected, device,      \* self.connected, self.device (TRUE: a device object)
  conn_cb,                \* pending root.after(0, update_connection_status, ...): "none"|"up"|"down"
  smoothing_type, smoothing_strength,
  audio_bars,             \* <<bass_var, mids_var, treble_var, audio_level_var, smoothed_value_var>>
  pattern_level_var,
  zero_audio_cb, zero_pattern_cb,   \* pending root.after(0, ...set(0)) callbacks
  \* shared attributes
  audio_enabled, pattern_enabled, running, stream,
  audio_intensity, pattern_current_intensity,
  has_audio_velocity, audio_velocity,       \* hasattr(self, '_audio_velocity'), its value
  has_last_sent, last_sent_intensity,       \* hasattr(self, '_last_sent_intensity'), its value
  cached_frequency_focus, cached_sensitivity, pattern_intensity,
  ui_update_queue,        \* queue.Queue(): sequence of [k, v]
  async_q,                \* coroutines handed to run_coroutine_threadsafe, in order
  \* audio worker thread
  a_pc,                   \* "dead"|"check"|"read"|"process"|"put"|"ended"|"crashed"
  smoothed_intensity, a_frame, a_age, frames_left,
  \* pattern worker thread
  p_pc,                   \* "dead"|"check"|"gen"|"put"|"ended"
  p_age,
  \* actuator sink
  dev_level,              \* the level the actuator runs at
  sink_age,               \* ms since the last intensity command reached the sink
  stop_in_force,          \* "no" | "issued" | "delivered": emergency stop not yet lifted by the operator
  sink_ok,                \* whether actuators[0].command(...) succeeds (FALSE: it raises)
  \* statistics and status line
  commands_sent,          \* self.commands_sent
  status_error,           \* status_text shows "Device error: ..."
  device_error_cb,        \* pending root.after(0, lambda: status_text.set("Device error ..."))
  \* Tk variables of the parameters and their cached cells
  sensitivity, frequency_focus, verbose_logging,
  cached_verbose_logging,
  \* pattern clock
  pattern_type,           \* self.pattern_type
  pattern_time,           \* self.pattern_time
  p_elapsed,              \* pattern worker: time.time() - start_time
  since_type_change,      \* ms since on_pattern_type_changed ran with the channel active and
                          \* no sample generated yet; NoChange otherwise
  \* visualizer
  visualizer_enabled,     \* the checkbutton's BooleanVar
  visualizer_animation,   \* self.visualizer_animation is not None
  visualizer_data,        \* self.visualizer_data (its highest bin)
  visualizer_smoothed,    \* self.visualizer_smoothed (the same bin): what the bars show
  \* inputs of the analyzer and of the pattern generator
  audio_data,             \* audio worker: the frame read last, [rms, mags], or NoData
  pattern_rate,           \* self.pattern_rate (slider, percent)
  pattern_randomness,     \* self.pattern_randomness (slider, percent)
  \* threads and Tk timers
  audio_threads,          \* number of audio worker threads alive
  pattern_threads,        \* number of pattern worker threads alive
  drain_scheduled,        \* a root.after(20, self.process_ui_updates) timer is pending
  stats_seen              \* update_statistics: the count it put in the label, until its reset

uiVars == <<ops, ui_pc, audio_enabled_var, pattern_enabled_var, intensity, manual_intensity,
            connected, device, conn_cb, smoothing_type, smoothing_strength,
            audio_bars, pattern_level_var, zero_audio_cb, zero_pattern_cb>>
sharedVars == <<audio_enabled, pattern_enabled, running, stream, audio_intensity,
                pattern_current_intensity, has_audio_velocity, audio_velocity,
                has_last_sent, last_sent_intensity, cached_frequency_focus,
                cached_sensitivity, pattern_intensity, ui_update_queue, async_q>>
audioVars == <<a_pc, smoothed_intensity, a_frame, a_age, frames_left>>
patternVars == <<p_pc, p_age>>
sinkVars == <<dev_level, sink_age, stop_in_force>>
statVars == <<sink_ok, commands_sent, status_error, device_error_cb>>
paramVars == <<sensitivity, frequency_focus, verbose_logging, cached_verbose_logging>>
clockVars == <<pattern_type, pattern_time, p_elapsed, since_type_change>>
visVars == <<visualizer_enabled, visualizer_animation, visualizer_data, visualizer_smoothed>>
\* uiVars without the operator's count
panelVars == <<ui_pc, audio_enabled_var, pattern_enabled_var, intensity, manual_intensity,
               connected, device, conn_cb, smoothing_type, smoothing_strength,
               audio_bars, pattern_level_var, zero_audio_cb, zero_pattern_cb>>
fnVars == <<audio_data, pattern_rate, pattern_randomness>>
schedVars == <<audio_threads, pattern_threads, drain_scheduled, stats_seen>>
vars == <<uiVars, sharedVars, audioVars, patternVars, sinkVars,
          statVars, paramVars, clockVars, visVars, fnVars, schedVars>>

Min(a, b) == IF a < b THEN a ELSE b
Max(a, b) == IF a > b THEN a ELSE b
Max3(a, b, c) == Max(a, Max(b, c))
Clamp01(x) == Max(0, Min(SCALE, x))

(***************************************************************************)
(* Pure functions                                                          *)
(***************************************************************************)

\* float(self.intensity.get()) / 100.0
ManualVal(pct) == (pct * SCALE) \div 100

\* the percentages the workers queue for the bars: x * 100
Pct(x) == x * 100

\* a mix that ignores the focus: the mean of the three bands
MixEvenly(bass, mids, treble, focus) == (bass + mids + treble) \div 3

\* calculate_frequency_mix(bass, mids, treble, focus_value); focus in -SCALE..SCALE
CalculateFrequencyMix(bass, mids, treble, focus) ==
  IF focus <= 0
    THEN LET blend == (focus + SCALE) \div 2
         IN  (bass * (SCALE - blend) + mids * blend) \div SCALE
    ELSE LET blend == focus
         IN  (mids * (SCALE - blend) + treble * blend) \div SCALE

\* target_intensity of one audio iteration: mix, sensitivity, noise floor
TargetIntensity(frame, focus, sens) ==
  LET mix == CalculateFrequencyMix(frame[1], frame[2], frame[3], focus)
      t   == (mix * sens) \div 100
  IN  IF t < NoiseFloorMilli THEN 0 ELSE t

\* the "simple" branch of apply_audio_smoothing
SmoothSimple(strength, cur, target) ==
  LET result == (strength * cur + (SCALE - strength) * target) \div SCALE
  IN  IF result < CutoffMilli THEN 0 ELSE result

\* the "adaptive" branch of apply_audio_smoothing
SmoothAdaptive(cur, target, dt) ==
  LET attack_factor == Min(SCALE, (dt * SCALE) \div Max(10, AttackTimeMs))
      \* delta_time * decay_rate, decay_rate = 3.0 / max(0.01, decay_time)
      decay_zero    == SCALE - Min(990, (3 * dt * SCALE) \div Max(10, DecayTimeMs))
      decay_factor  == Min(SCALE, (dt * SCALE) \div Max(10, DecayTimeMs))
      result ==
        IF target > cur
          THEN cur + ((target - cur) * attack_factor) \div SCALE
          ELSE IF target = 0
                 THEN (cur * decay_zero) \div SCALE
                 ELSE cur + ((target - cur) * decay_factor) \div SCALE
  IN  IF result < CutoffMilli THEN 0 ELSE Clamp01(result)

\* the "momentum" branch: [out, vel], vel the value left in self._audio_velocity
SmoothMomentum(cur, target, dt, vel) ==
  LET desired_change == target - cur
      \* momentum_factor = 0.3, responsiveness = 2.0
      v1   == (300 * vel + 700 * desired_change * 2) \div SCALE
      mult == IF target = 0 THEN 3 ELSE 1
      \* damping_factor = 0.6
      v2   == (v1 * (SCALE - (600 * mult * dt) \div SCALE)) \div SCALE
      new_intensity == cur + (v2 * dt) \div SCALE
  IN  IF new_intensity < CutoffMilli \/ target = 0
        THEN [out |-> 0, vel |-> 0]
        ELSE [out |-> Clamp01(new_intensity), vel |-> v2]

\* a smoother that applies the simple filter whatever the type
SmoothSimpleAlways(type, strength, cur, target, dt, has, vel) ==
  [out |-> SmoothSimple(strength, cur, target), has |-> has, vel |-> vel]

\* apply_audio_smoothing(current_intensity, target_intensity, delta_time) with the
\* smoother state it reads and leaves: [out, has, vel]
ApplyAudioSmoothing(type, strength, cur, target, dt, has, vel) ==
  IF type = "none" THEN [out |-> target, has |-> has, vel |-> vel]
  ELSE IF type = "simple"
    THEN [out |-> SmoothSimple(strength, cur, target), has |-> has, vel |-> vel]
  ELSE IF type = "adaptive"
    THEN [out |-> SmoothAdaptive(cur, target, dt), has |-> has, vel |-> vel]
  ELSE IF type = "momentum"
    THEN LET m == SmoothMomentum(cur, target, dt, IF has THEN vel ELSE 0)
         IN  [out |-> m.out, has |-> TRUE, vel |-> m.vel]
  ELSE [out |-> target, has |-> has, vel |-> vel]

\* a publication of the smoother's value as it is, without the cap
PublishUncapped(smoothed) == smoothed

\* self.audio_intensity = float(min(0.8, smoothed_intensity))
CapIntensity(smoothed) == Min(CapMilli, smoothed)

\* combined_intensity of update_device_from_audio
CombineAudio(audio, manual) == Max(audio, manual)

\* the three sources added up instead of the largest taken
CombineBySum(pattern, audio, manual) == pattern + audio + manual

\* combined_intensity of update_device_from_pattern
CombinePattern(pattern, audio, manual) == Max3(pattern, audio, manual)

(***************************************************************************)
(* State after MuchFunApp.__init__                                         *)
(***************************************************************************)
ZeroBars == <<0, 0, 0, 0, 0>>

\* the highest bin of viz_data: analyze_frequency_bands divides by max_viz when it is
\* positive
VizPeak(frame) == IF frame = <<0, 0, 0>> THEN 0 ELSE SCALE

Init ==
  /\ ops = 0
  /\ ui_pc = "idle"
  /\ audio_enabled_var = FALSE /\ pattern_enabled_var = FALSE
  /\ intensity = 0 /\ manual_intensity = 0
  /\ connected = FALSE /\ device = FALSE /\ conn_cb = "none"
  /\ smoothing_type = "adaptive" /\ smoothing_strength = DefaultStrengthMilli
  /\ audio_bars = ZeroBars /\ pattern_level_var = 0
  /\ zero_audio_cb = FALSE /\ zero_pattern_cb = FALSE
  /\ audio_enabled = FALSE /\ pattern_enabled = FALSE /\ running = TRUE
  /\ stream = FALSE
  /\ audio_intensity = 0 /\ pattern_current_intensity = 0
  /\ has_audio_velocity = FALSE /\ audio_velocity = 0
  /\ has_last_sent = FALSE /\ last_sent_intensity = 0
  /\ cached_frequency_focus = 0 /\ cached_sensitivity = DefaultSensitivity
  /\ pattern_intensity = DefaultPatternIntensity
  /\ audio_data = NoData
  /\ pattern_rate = DefaultPatternRate /\ pattern_randomness = 0
  /\ ui_update_queue = <<>> /\ async_q = <<>>
  /\ a_pc = "dead" /\ smoothed_intensity = 0 /\ a_frame = <<0, 0, 0>>
  /\ audio_threads = 0 /\ pattern_threads = 0
  /\ drain_scheduled = TRUE /\ stats_seen = 0
  /\ a_age = SendIntervalMs /\ frames_left = MaxFrames
  /\ p_pc = "dead" /\ p_age = SendIntervalMs
  /\ dev_level = 0 /\ sink_age = SendIntervalMs /\ stop_in_force = "no"
  /\ sink_ok = TRUE /\ commands_sent = 0
  /\ status_error = FALSE /\ device_error_cb = FALSE
  /\ sensitivity = DefaultSensitivity /\ frequency_focus = 0
  /\ verbose_logging = FALSE /\ cached_verbose_logging = FALSE
  /\ pattern_type = "wave" /\ pattern_time = 0 /\ p_elapsed = 0
  /\ since_type_change = NoChange
  /\ visualizer_enabled = TRUE /\ visualizer_animation = FALSE
  /\ visualizer_data = 0 /\ visualizer_smoothed = 0

\* start_audio without its is_alive() test
AudioThreadNeverSeenAlive == FALSE
\* self.audio_thread.is_alive()
AudioThreadAlive == a_pc \in {"check", "read", "process", "put"}

\* self.pattern_thread.is_alive()
PatternThreadAlive == p_pc \in {"check", "gen", "put"}

\* the operator takes one more action (a click, a slider move)
OperatorActs == ops < MaxOps /\ ops' = ops + 1

\* a put that returns only once the asyncio loop has nothing pending
PutAfterLoopIdle(uiq, loopq) == loopq = <<>>

\* self.ui_update_queue.put(f) on queue.Queue() (no maxsize): returns at once, whatever
\* the queue and the asyncio loop hold
PutReturns(uiq, loopq) == TRUE

\* a send_intensity that never reaches its except branch
NeverRaises(dev, ok) == FALSE

\* run_async(coro): the coroutine joins the loop's FIFO
RunAsync(q, c) == Append(q, c)

(***************************************************************************)
(* Tk thread: operator handlers                                            *)
(***************************************************************************)

\* stop_audio(): the assignments; the five after(0) resets are one pending batch
StopAudio ==
  /\ audio_enabled' = FALSE
  /\ stream' = FALSE
  /\ audio_intensity' = 0
  /\ visualizer_data' = 0
  /\ zero_audio_cb' = TRUE
  /\ status_error' = FALSE

\* stop_pattern()
StopPattern ==
  /\ pattern_enabled' = FALSE
  /\ pattern_current_intensity' = 0
  /\ zero_pattern_cb' = TRUE
  /\ status_error' = FALSE

\* toggle_audio, box checked, start_audio opens the stream and starts a worker
ToggleAudioOnStart ==
  /\ OperatorActs
  /\ ui_pc = "idle" /\ ~audio_enabled_var /\ ~AudioThreadAlive
  /\ audio_enabled_var' = TRUE /\ audio_enabled' = TRUE
  /\ stream' = TRUE
  /\ audio_threads' = audio_threads + 1
  /\ a_pc' = "check" /\ smoothed_intensity' = 0 /\ a_age' = SendIntervalMs
  /\ stop_in_force' = "no"
  /\ status_error' = FALSE
  /\ UNCHANGED <<ui_pc, pattern_enabled_var, intensity, manual_intensity, connected,
                 device, conn_cb, smoothing_type, smoothing_strength, audio_bars,
                 pattern_level_var, zero_audio_cb, zero_pattern_cb>>
  /\ UNCHANGED <<pattern_enabled, running, audio_intensity, pattern_current_intensity,
                 has_audio_velocity, audio_velocity, has_last_sent, last_sent_intensity,
                 cached_frequency_focus, cached_sensitivity, pattern_intensity, fnVars,
                 pattern_threads, drain_scheduled, stats_seen,
                 ui_update_queue, async_q>>
  /\ UNCHANGED <<a_frame, frames_left, patternVars, dev_level, sink_age>>
  /\ UNCHANGED <<sink_ok, commands_sent, device_error_cb, sensitivity, frequency_focus,
                 verbose_logging, cached_verbose_logging, pattern_type,
                 since_type_change, pattern_time, p_elapsed, visualizer_enabled,
                 visualizer_animation, visualizer_data, visualizer_smoothed>>

\* toggle_audio, box checked, start_audio returns early: "Audio thread already running"
ToggleAudioOnAlive ==
  /\ OperatorActs
  /\ ui_pc = "idle" /\ ~audio_enabled_var /\ AudioThreadAlive
  /\ audio_enabled_var' = TRUE /\ audio_enabled' = TRUE
  /\ stop_in_force' = "no"
  /\ UNCHANGED <<ui_pc, pattern_enabled_var, intensity, manual_intensity, connected,
                 device, conn_cb, smoothing_type, smoothing_strength, audio_bars,
                 pattern_level_var, zero_audio_cb, zero_pattern_cb>>
  /\ UNCHANGED <<pattern_enabled, running, stream, audio_intensity,
                 pattern_current_intensity, has_audio_velocity, audio_velocity,
                 has_last_sent, last_sent_intensity, cached_frequency_focus,
                 cached_sensitivity, pattern_intensity, fnVars,
                 schedVars, ui_update_queue, async_q>>
  /\ UNCHANGED <<audioVars, patternVars, dev_level, sink_age>>
  /\ UNCHANGED <<sink_ok, commands_sent, status_error, device_error_cb, sensitivity,
                 frequency_focus, verbose_logging, cached_verbose_logging,
                 pattern_type, since_type_change, pattern_time, p_elapsed,
                 visualizer_enabled, visualizer_animation, visualizer_data,
                 visualizer_smoothed>>

\* toggle_audio, box checked, self.audio.open raises: the except branch unchecks the box
ToggleAudioOnFail ==
  /\ OperatorActs
  /\ ui_pc = "idle" /\ ~audio_enabled_var /\ ~AudioThreadAlive
  /\ audio_enabled_var' = FALSE /\ audio_enabled' = TRUE
  /\ stop_in_force' = "no"
  /\ UNCHANGED <<ui_pc, pattern_enabled_var, intensity, manual_intensity, connected,
                 device, conn_cb, smoothing_type, smoothing_strength, audio_bars,
                 pattern_level_var, zero_audio_cb, zero_pattern_cb>>
  /\ UNCHANGED <<pattern_enabled, running, stream, audio_intensity,
                 pattern_current_intensity, has_audio_velocity, audio_velocity,
                 has_last_sent, last_sent_intensity, cached_frequency_focus,
                 cached_sensitivity, pattern_intensity, fnVars,
                 schedVars, ui_update_queue, async_q>>
  /\ UNCHANGED <<audioVars, patternVars, dev_level, sink_age>>
  /\ UNCHANGED <<sink_ok, commands_sent, status_error, device_error_cb, sensitivity,
                 frequency_focus, verbose_logging, cached_verbose_logging,
                 pattern_type, since_type_change, pattern_time, p_elapsed,
                 visualizer_enabled, visualizer_animation, visualizer_data,
                 visualizer_smoothed>>

\* toggle_audio, box unchecked: stop_audio
ToggleAudioOff ==
  /\ OperatorActs
  /\ ui_pc = "idle" /\ audio_enabled_var
  /\ audio_enabled_var' = FALSE
  /\ StopAudio
  /\ UNCHANGED <<ui_pc, pattern_enabled_var, intensity, manual_intensity, connected,
                 device, conn_cb, smoothing_type, smoothing_strength, audio_bars,
                 pattern_level_var, zero_pattern_cb>>
  /\ UNCHANGED <<pattern_enabled, running, pattern_current_intensity,
                 has_audio_velocity, audio_velocity, has_last_sent, last_sent_intensity,
                 cached_frequency_focus, cached_sensitivity, pattern_intensity, fnVars,
                 schedVars,
                 ui_update_queue, async_q>>
  /\ UNCHANGED <<audioVars, patternVars, sinkVars>>
  /\ UNCHANGED <<sink_ok, commands_sent, device_error_cb, sensitivity, frequency_focus,
                 verbose_logging, cached_verbose_logging, pattern_type,
                 since_type_change, pattern_time, p_elapsed, visualizer_enabled,
                 visualizer_animation, visualizer_smoothed>>

\* toggle_pattern, box checked, start_pattern starts a worker
TogglePatternOnStart ==
  /\ OperatorActs
  /\ ui_pc = "idle" /\ ~pattern_enabled_var /\ ~PatternThreadAlive
  /\ pattern_enabled_var' = TRUE /\ pattern_enabled' = TRUE
  /\ pattern_threads' = pattern_threads + 1
  /\ p_pc' = "check" /\ p_age' = SendIntervalMs
  /\ stop_in_force' = "no"
  /\ status_error' = FALSE
  /\ pattern_time' = 0
  /\ p_elapsed' = 0
  /\ since_type_change' = NoChange
  /\ UNCHANGED <<ui_pc, audio_enabled_var, intensity, manual_intensity, connected,
                 device, conn_cb, smoothing_type, smoothing_strength, audio_bars,
                 pattern_level_var, zero_audio_cb, zero_pattern_cb>>
  /\ UNCHANGED <<audio_enabled, running, stream, audio_intensity,
                 pattern_current_intensity, has_audio_velocity, audio_velocity,
                 has_last_sent, last_sent_intensity, cached_frequency_focus,
                 cached_sensitivity, pattern_intensity, fnVars,
                 audio_threads, drain_scheduled, stats_seen, ui_update_queue, async_q>>
  /\ UNCHANGED <<audioVars, dev_level, sink_age>>
  /\ UNCHANGED <<sink_ok, commands_sent, device_error_cb, sensitivity, frequency_focus,
                 verbose_logging, cached_verbose_logging, pattern_type,
                 visualizer_enabled, visualizer_animation, visualizer_data,
                 visualizer_smoothed>>

\* toggle_pattern, box checked, start_pattern returns early: "Pattern thread already running"
TogglePatternOnAlive ==
  /\ OperatorActs
  /\ ui_pc = "idle" /\ ~pattern_enabled_var /\ PatternThreadAlive
  /\ pattern_enabled_var' = TRUE /\ pattern_enabled' = TRUE
  /\ stop_in_force' = "no"
  /\ UNCHANGED <<ui_pc, audio_enabled_var, intensity, manual_intensity, connected,
                 device, conn_cb, smoothing_type, smoothing_strength, audio_bars,
                 pattern_level_var, zero_audio_cb, zero_pattern_cb>>
  /\ UNCHANGED <<audio_enabled, running, stream, audio_intensity,
                 pattern_current_intensity, has_audio_velocity, audio_velocity,
                 has_last_sent, last_sent_intensity, cached_frequency_focus,
                 cached_sensitivity, pattern_intensity, fnVars,
                 schedVars, ui_update_queue, async_q>>
  /\ UNCHANGED <<audioVars, patternVars, dev_level, sink_age>>
  /\ UNCHANGED <<sink_ok, commands_sent, status_error, device_error_cb, sensitivity,
                 frequency_focus, verbose_logging, cached_verbose_logging,
                 pattern_type, since_type_change, pattern_time, p_elapsed,
                 visualizer_enabled, visualizer_animation, visualizer_data,
                 visualizer_smoothed>>

\* toggle_pattern, box unchecked: stop_pattern
TogglePatternOff ==
  /\ OperatorActs
  /\ ui_pc = "idle" /\ pattern_enabled_var
  /\ pattern_enabled_var' = FALSE
  /\ StopPattern
  /\ UNCHANGED <<ui_pc, audio_enabled_var, intensity, manual_intensity, connected,
                 device, conn_cb, smoothing_type, smoothing_strength, audio_bars,
                 pattern_level_var, zero_audio_cb>>
  /\ UNCHANGED <<audio_enabled, running, stream, audio_intensity,
                 has_audio_velocity, audio_velocity, has_last_sent, last_sent_intensity,
                 cached_frequency_focus, cached_sensitivity, pattern_intensity, fnVars,
                 schedVars,
                 ui_update_queue, async_q>>
  /\ UNCHANGED <<audioVars, patternVars, sinkVars>>
  /\ UNCHANGED <<sink_ok, commands_sent, device_error_cb, sensitivity, frequency_focus,
                 verbose_logging, cached_verbose_logging, pattern_type,
                 since_type_change, pattern_time, p_elapsed, visualizer_enabled,
                 visualizer_animation, visualizer_data, visualizer_smoothed>>

\* a manual dispatch that does not look at the channels' flags
ManualDispatchAlways(q, val, dev, conn, aud, pat) ==
  IF dev /\ conn THEN RunAsync(q, val) ELSE q

\* what manual_intensity_changed hands to run_async
ManualDispatch(q, val, dev, conn, aud, pat) ==
  IF dev /\ conn /\ ~aud /\ ~pat THEN RunAsync(q, val) ELSE q

\* manual_intensity_changed(value): the operator moves the slider to v percent
ManualIntensityChanged(v) ==
  /\ OperatorActs
  /\ ui_pc = "idle"
  /\ Len(async_q) < MaxAsync
  /\ intensity' = v
  /\ manual_intensity' = ManualVal(v)
  /\ async_q' = ManualDispatch(async_q, ManualVal(v), device, connected,
                               audio_enabled, pattern_enabled)
  /\ stop_in_force' = "no"
  /\ UNCHANGED <<ui_pc, audio_enabled_var, pattern_enabled_var, connected, device,
                 conn_cb, smoothing_type, smoothing_strength, audio_bars,
                 pattern_level_var, zero_audio_cb, zero_pattern_cb>>
  /\ UNCHANGED <<audio_enabled, pattern_enabled, running, stream, audio_intensity,
                 pattern_current_intensity, has_audio_velocity, audio_velocity,
                 has_last_sent, last_sent_intensity, cached_frequency_focus,
                 cached_sensitivity, pattern_intensity, fnVars, schedVars, ui_update_queue>>
  /\ UNCHANGED <<audioVars, patternVars, dev_level, sink_age>>
  /\ UNCHANGED <<sink_ok, commands_sent, status_error, device_error_cb, sensitivity,
                 frequency_focus, verbose_logging, cached_verbose_logging,
                 pattern_type, since_type_change, pattern_time, p_elapsed,
                 visualizer_enabled, visualizer_animation, visualizer_data,
                 visualizer_smoothed>>

\* a type change that also starts the smoother afresh
OnSmoothingTypeChangedResetting(t) ==
  /\ OperatorActs
  /\ ui_pc = "idle"
  /\ t # smoothing_type
  /\ smoothing_type' = t
  /\ smoothed_intensity' = 0
  /\ has_audio_velocity' = FALSE /\ audio_velocity' = 0
  /\ UNCHANGED <<ui_pc, audio_enabled_var, pattern_enabled_var, intensity,
                 manual_intensity, connected, device, conn_cb, smoothing_strength,
                 audio_bars, pattern_level_var, zero_audio_cb, zero_pattern_cb>>
  /\ UNCHANGED <<audio_enabled, pattern_enabled, running, stream, audio_intensity,
                 pattern_current_intensity, has_last_sent, last_sent_intensity,
                 cached_frequency_focus, cached_sensitivity, pattern_intensity,
                 ui_update_queue, async_q>>
  /\ UNCHANGED <<a_pc, a_frame, a_age, frames_left>>
  /\ UNCHANGED <<fnVars,
                 schedVars, patternVars, sinkVars, statVars, paramVars, clockVars, visVars>>

\* on_smoothing_type_changed: the operator picks a smoothing type
OnSmoothingTypeChanged(t) ==
  /\ OperatorActs
  /\ ui_pc = "idle"
  /\ t # smoothing_type
  /\ smoothing_type' = t
  /\ UNCHANGED <<ui_pc, audio_enabled_var, pattern_enabled_var, intensity,
                 manual_intensity, connected, device, conn_cb, smoothing_strength,
                 audio_bars, pattern_level_var, zero_audio_cb, zero_pattern_cb>>
  /\ UNCHANGED <<sharedVars, fnVars, schedVars, audioVars, patternVars, sinkVars>>
  /\ UNCHANGED <<sink_ok, commands_sent, status_error, device_error_cb, sensitivity,
                 frequency_focus, verbose_logging, cached_verbose_logging,
                 pattern_type, since_type_change, pattern_time, p_elapsed,
                 visualizer_enabled, visualizer_animation, visualizer_data,
                 visualizer_smoothed>>

\* on_smoothing_strength_changed(value): the operator moves the strength slider to
\* value percent
OnSmoothingStrengthChanged(value) ==
  /\ OperatorActs
  /\ ui_pc = "idle"
  /\ smoothing_strength' = (value * SCALE) \div 100
  /\ smoothing_strength' # smoothing_strength
  /\ UNCHANGED <<ui_pc, audio_enabled_var, pattern_enabled_var, intensity,
                 manual_intensity, connected, device, conn_cb, smoothing_type,
                 audio_bars, pattern_level_var, zero_audio_cb, zero_pattern_cb>>
  /\ UNCHANGED <<sharedVars, fnVars, schedVars, audioVars, patternVars, sinkVars>>
  /\ UNCHANGED <<sink_ok, commands_sent, status_error, device_error_cb, sensitivity,
                 frequency_focus, verbose_logging, cached_verbose_logging,
                 pattern_type, since_type_change, pattern_time, p_elapsed,
                 visualizer_enabled, visualizer_animation, visualizer_data,
                 visualizer_smoothed>>

\* what the first half of emergency_stop hands to run_async: device.stop(), if a device
EmergencyDispatch(q, dev) == IF dev THEN RunAsync(q, StopCmd) ELSE q

\* emergency_stop, up to "Reset smoothing state"
EmergencyStopBegin ==
  /\ OperatorActs
  /\ ui_pc = "idle"
  /\ Len(async_q) < MaxAsync
  /\ async_q' = EmergencyDispatch(async_q, device)
  /\ intensity' = 0
  /\ manual_intensity' = 0
  /\ audio_enabled_var' = FALSE
  /\ pattern_enabled_var' = FALSE
  /\ audio_velocity' = IF has_audio_velocity THEN 0 ELSE audio_velocity
  /\ ui_pc' = "es_cleanup"
  /\ stop_in_force' = IF ~device \/ stop_in_force = "delivered"
                        THEN stop_in_force ELSE "issued"
  /\ UNCHANGED <<connected, device, conn_cb, smoothing_type, smoothing_strength,
                 audio_bars, pattern_level_var, zero_audio_cb, zero_pattern_cb>>
  /\ UNCHANGED <<audio_enabled, pattern_enabled, running, stream, audio_intensity,
                 pattern_current_intensity, has_audio_velocity,
                 has_last_sent, last_sent_intensity, cached_frequency_focus,
                 cached_sensitivity, pattern_intensity, fnVars, schedVars, ui_update_queue>>
  /\ UNCHANGED <<audioVars, patternVars, dev_level, sink_age>>
  /\ UNCHANGED <<sink_ok, commands_sent, status_error, device_error_cb, sensitivity,
                 frequency_focus, verbose_logging, cached_verbose_logging,
                 pattern_type, since_type_change, pattern_time, p_elapsed,
                 visualizer_enabled, visualizer_animation, visualizer_data,
                 visualizer_smoothed>>

\* emergency_stop, "Safely stop all control methods": stop_audio(); stop_pattern(); return
EmergencyStopCleanup ==
  /\ ui_pc = "es_cleanup"
  /\ StopAudio
  /\ StopPattern
  /\ ui_pc' = "idle"
  /\ UNCHANGED <<ops, audio_enabled_var, pattern_enabled_var, intensity, manual_intensity,
                 connected, device, conn_cb, smoothing_type, smoothing_strength,
                 audio_bars, pattern_level_var>>
  /\ UNCHANGED <<running, has_audio_velocity, audio_velocity, has_last_sent,
                 last_sent_intensity, cached_frequency_focus, cached_sensitivity,
                 pattern_intensity, fnVars, schedVars, ui_update_queue, async_q>>
  /\ UNCHANGED <<audioVars, patternVars, sinkVars>>
  /\ UNCHANGED <<sink_ok, commands_sent, device_error_cb, sensitivity, frequency_focus,
                 verbose_logging, cached_verbose_logging, pattern_type,
                 since_type_change, pattern_time, p_elapsed, visualizer_enabled,
                 visualizer_animation, visualizer_smoothed>>

(***************************************************************************)
(* Tk thread: callbacks                                                    *)
(***************************************************************************)

\* the value update_device_from_audio / update_device_from_pattern sends
DeviceUpdateValue(k) ==
  IF k = "dev_audio"
    THEN CombineAudio(audio_intensity, ManualVal(intensity))
    ELSE CombinePattern(pattern_current_intensity, audio_intensity, ManualVal(intensity))

\* process_ui_updates: one get_nowait() and update_func()
DrainItem ==
  /\ ui_pc \in {"idle", "drain"}
  /\ ui_pc = "idle" => drain_scheduled
  /\ ui_update_queue # <<>>
  /\ LET item == Head(ui_update_queue)
     IN  /\ ui_update_queue' = Tail(ui_update_queue)
         /\ audio_bars' = IF item.k = "bars" THEN item.v ELSE audio_bars
         /\ pattern_level_var' = IF item.k = "plevel" THEN item.v[1] ELSE pattern_level_var
         /\ IF item.k \in {"dev_audio", "dev_pattern"} /\ device /\ connected
              THEN /\ Len(async_q) < MaxAsync
                   /\ async_q' = RunAsync(async_q, DeviceUpdateValue(item.k))
              ELSE async_q' = async_q
  /\ ui_pc' = "drain"
  /\ UNCHANGED <<ops, audio_enabled_var, pattern_enabled_var, intensity, manual_intensity,
                 connected, device, conn_cb, smoothing_type, smoothing_strength,
                 zero_audio_cb, zero_pattern_cb>>
  /\ UNCHANGED <<audio_enabled, pattern_enabled, running, stream, audio_intensity,
                 pattern_current_intensity, has_audio_velocity, audio_velocity,
                 has_last_sent, last_sent_intensity, cached_frequency_focus,
                 cached_sensitivity, pattern_intensity, fnVars, schedVars>>
  /\ UNCHANGED <<audioVars, patternVars, sinkVars>>
  /\ UNCHANGED <<sink_ok, commands_sent, status_error, device_error_cb, sensitivity,
                 frequency_focus, verbose_logging, cached_verbose_logging,
                 pattern_type, since_type_change, pattern_time, p_elapsed,
                 visualizer_enabled, visualizer_animation, visualizer_data,
                 visualizer_smoothed>>

\* process_ui_updates: queue.Empty, break, root.after(20, self.process_ui_updates)
DrainDone ==
  /\ ui_pc = "drain"
  /\ ui_update_queue = <<>>
  /\ ui_pc' = "idle"
  /\ UNCHANGED <<ops, audio_enabled_var, pattern_enabled_var, intensity, manual_intensity,
                 connected, device, conn_cb, smoothing_type, smoothing_strength,
                 audio_bars, pattern_level_var, zero_audio_cb, zero_pattern_cb>>
  /\ UNCHANGED <<sharedVars, fnVars, schedVars, audioVars, patternVars, sinkVars>>
  /\ UNCHANGED <<sink_ok, commands_sent, status_error, device_error_cb, sensitivity,
                 frequency_focus, verbose_logging, cached_verbose_logging,
                 pattern_type, since_type_change, pattern_time, p_elapsed,
                 visualizer_enabled, visualizer_animation, visualizer_data,
                 visualizer_smoothed>>

\* the after(0) lambdas of stop_audio: the five audio bars are set to 0
ZeroAudioBars ==
  /\ ui_pc = "idle"
  /\ zero_audio_cb
  /\ zero_audio_cb' = FALSE
  /\ audio_bars' = ZeroBars
  /\ UNCHANGED <<ops, ui_pc, audio_enabled_var, pattern_enabled_var, intensity,
                 manual_intensity, connected, device, conn_cb, smoothing_type,
                 smoothing_strength, pattern_level_var, zero_pattern_cb>>
  /\ UNCHANGED <<sharedVars, fnVars, schedVars, audioVars, patternVars, sinkVars>>
  /\ UNCHANGED <<sink_ok, commands_sent, status_error, device_error_cb, sensitivity,
                 frequency_focus, verbose_logging, cached_verbose_logging,
                 pattern_type, since_type_change, pattern_time, p_elapsed,
                 visualizer_enabled, visualizer_animation, visualizer_data,
                 visualizer_smoothed>>

\* the after(0) lambda of stop_pattern: pattern_level_var.set(0)
ZeroPatternLevel ==
  /\ ui_pc = "idle"
  /\ zero_pattern_cb
  /\ zero_pattern_cb' = FALSE
  /\ pattern_level_var' = 0
  /\ UNCHANGED <<ops, ui_pc, audio_enabled_var, pattern_enabled_var, intensity,
                 manual_intensity, connected, device, conn_cb, smoothing_type,
                 smoothing_strength, audio_bars, zero_audio_cb>>
  /\ UNCHANGED <<sharedVars, fnVars, schedVars, audioVars, patternVars, sinkVars>>
  /\ UNCHANGED <<sink_ok, commands_sent, status_error, device_error_cb, sensitivity,
                 frequency_focus, verbose_logging, cached_verbose_logging,
                 pattern_type, since_type_change, pattern_time, p_elapsed,
                 visualizer_enabled, visualizer_animation, visualizer_data,
                 visualizer_smoothed>>

\* update_connection_status(connected, message), run by root.after(0, ...)
UpdateConnectionStatus ==
  /\ ui_pc = "idle"
  /\ conn_cb # "none"
  /\ connected' = (conn_cb = "up")
  /\ device' = IF conn_cb = "up" THEN device ELSE FALSE
  /\ conn_cb' = "none"
  /\ status_error' = FALSE
  /\ UNCHANGED <<ops, ui_pc, audio_enabled_var, pattern_enabled_var, intensity,
                 manual_intensity, smoothing_type, smoothing_strength, audio_bars,
                 pattern_level_var, zero_audio_cb, zero_pattern_cb>>
  /\ UNCHANGED <<sharedVars, fnVars, schedVars, audioVars, patternVars, sinkVars>>
  /\ UNCHANGED <<sink_ok, commands_sent, device_error_cb, sensitivity, frequency_focus,
                 verbose_logging, cached_verbose_logging, pattern_type,
                 since_type_change, pattern_time, p_elapsed, visualizer_enabled,
                 visualizer_animation, visualizer_data, visualizer_smoothed>>

(***************************************************************************)
(* asyncio loop thread and the actuator sink                               *)
(***************************************************************************)

\* toggle_connection while disconnected: connect_to_server finds a device
ConnectToServer ==
  /\ OperatorActs
  /\ ui_pc = "idle"
  /\ ~connected /\ conn_cb = "none"
  /\ device' = TRUE
  /\ conn_cb' = "up"
  /\ UNCHANGED <<ui_pc, audio_enabled_var, pattern_enabled_var, intensity,
                 manual_intensity, connected, smoothing_type, smoothing_strength,
                 audio_bars, pattern_level_var, zero_audio_cb, zero_pattern_cb>>
  /\ UNCHANGED <<sharedVars, fnVars, schedVars, audioVars, patternVars, sinkVars>>
  /\ UNCHANGED <<sink_ok, commands_sent, status_error, device_error_cb, sensitivity,
                 frequency_focus, verbose_logging, cached_verbose_logging,
                 pattern_type, since_type_change, pattern_time, p_elapsed,
                 visualizer_enabled, visualizer_animation, visualizer_data,
                 visualizer_smoothed>>

\* toggle_connection while connected: disconnect_from_server
DisconnectFromServer ==
  /\ OperatorActs
  /\ ui_pc = "idle"
  /\ connected /\ conn_cb = "none"
  /\ conn_cb' = "down"
  /\ UNCHANGED <<ui_pc, audio_enabled_var, pattern_enabled_var, intensity,
                 manual_intensity, connected, device, smoothing_type,
                 smoothing_strength, audio_bars, pattern_level_var, zero_audio_cb,
                 zero_pattern_cb>>
  /\ UNCHANGED <<sharedVars, fnVars, schedVars, audioVars, patternVars, sinkVars>>
  /\ UNCHANGED <<sink_ok, commands_sent, status_error, device_error_cb, sensitivity,
                 frequency_focus, verbose_logging, cached_verbose_logging,
                 pattern_type, since_type_change, pattern_time, p_elapsed,
                 visualizer_enabled, visualizer_animation, visualizer_data,
                 visualizer_smoothed>>

\* the level the actuator runs at after send_intensity(v) has run
SinkLevelAfter(level, v, dev) == IF dev THEN v ELSE level

\* a send that adds nothing to self.commands_sent
CommandsKept(n, dev, ok) == n

\* self.commands_sent after send_intensity: += 1 once the actuator took the command
CommandsAfter(n, dev, ok) == IF dev /\ ok THEN n + 1 ELSE n

\* send_intensity ends in its except branch: the actuator's command raised
SendRaises(dev, ok) == dev /\ ~ok

\* send_intensity(intensity): the coroutine at the head of the loop's queue runs
SendIntensity ==
  /\ async_q # <<>>
  /\ Head(async_q) # StopCmd
  /\ async_q' = Tail(async_q)
  /\ device /\ sink_ok => commands_sent < MaxCommands
  /\ dev_level' = SinkLevelAfter(dev_level, Head(async_q), device /\ sink_ok)
  /\ commands_sent' = CommandsAfter(commands_sent, device, sink_ok)
  /\ device_error_cb' = (device_error_cb \/ SendRaises(device, sink_ok))
  /\ sink_age' = IF device THEN 0 ELSE sink_age
  /\ UNCHANGED <<uiVars, audioVars, patternVars, stop_in_force>>
  /\ UNCHANGED <<audio_enabled, pattern_enabled, running, stream, audio_intensity,
                 pattern_current_intensity, has_audio_velocity, audio_velocity,
                 has_last_sent, last_sent_intensity, cached_frequency_focus,
                 cached_sensitivity, pattern_intensity, fnVars, schedVars, ui_update_queue>>
  /\ UNCHANGED <<sink_ok, status_error, sensitivity, frequency_focus, verbose_logging,
                 cached_verbose_logging, pattern_type, since_type_change, pattern_time,
                 p_elapsed, visualizer_enabled, visualizer_animation, visualizer_data,
                 visualizer_smoothed>>

\* device.stop(): the coroutine at the head of the loop's queue runs
DeviceStop ==
  /\ async_q # <<>>
  /\ Head(async_q) = StopCmd
  /\ async_q' = Tail(async_q)
  /\ dev_level' = IF sink_ok THEN 0 ELSE dev_level
  /\ stop_in_force' = IF stop_in_force = "issued" /\ sink_ok
                        THEN "delivered" ELSE stop_in_force
  /\ UNCHANGED <<uiVars, audioVars, patternVars, sink_age>>
  /\ UNCHANGED <<audio_enabled, pattern_enabled, running, stream, audio_intensity,
                 pattern_current_intensity, has_audio_velocity, audio_velocity,
                 has_last_sent, last_sent_intensity, cached_frequency_focus,
                 cached_sensitivity, pattern_intensity, fnVars, schedVars, ui_update_queue>>
  /\ UNCHANGED <<sink_ok, commands_sent, status_error, device_error_cb, sensitivity,
                 frequency_focus, verbose_logging, cached_verbose_logging,
                 pattern_type, since_type_change, pattern_time, p_elapsed,
                 visualizer_enabled, visualizer_animation, visualizer_data,
                 visualizer_smoothed>>

(***************************************************************************)
(* Audio worker thread                                                     *)
(***************************************************************************)

\* while self.audio_enabled and self.stream and self.running
AudioLoopCondition == audio_enabled /\ stream /\ running

AudioCheck ==
  /\ a_pc = "check"
  /\ a_pc' = IF AudioLoopCondition THEN "read" ELSE "ended"
  /\ audio_threads' = IF AudioLoopCondition THEN audio_threads ELSE audio_threads - 1
  /\ UNCHANGED <<uiVars, sharedVars, fnVars,
                 pattern_threads, drain_scheduled, stats_seen, patternVars, sinkVars>>
  /\ UNCHANGED <<smoothed_intensity, a_frame, a_age, frames_left>>
  /\ UNCHANGED <<sink_ok, commands_sent, status_error, device_error_cb, sensitivity,
                 frequency_focus, verbose_logging, cached_verbose_logging,
                 pattern_type, since_type_change, pattern_time, p_elapsed,
                 visualizer_enabled, visualizer_animation, visualizer_data,
                 visualizer_smoothed>>

\* the pc after a failed read: the except branch of audio_worker breaks the loop
AudioAfterReadError == "crashed"

\* self.stream.is_stopped() / self.stream.read(1024): a frame arrives and is analyzed,
\* the analyzer's result being one of `outputs`
AudioReadFrom(outputs) ==
  /\ a_pc = "read"
  /\ stream
  /\ frames_left > 0
  /\ \E f \in outputs : a_frame' = f
  /\ frames_left' = frames_left - 1
  /\ a_pc' = "process"
  /\ UNCHANGED <<uiVars, sharedVars, fnVars, schedVars, patternVars, sinkVars>>
  /\ UNCHANGED <<smoothed_intensity, a_age>>
  /\ UNCHANGED <<sink_ok, commands_sent, status_error, device_error_cb, sensitivity,
                 frequency_focus, verbose_logging, cached_verbose_logging,
                 pattern_type, since_type_change, pattern_time, p_elapsed,
                 visualizer_enabled, visualizer_animation, visualizer_data,
                 visualizer_smoothed>>

AudioRead == AudioReadFrom(AnalyzerOutputs)

\* the read raises: the stream was closed by stop_audio (self.stream is None), or the
\* capture backend fails
AudioReadError ==
  /\ a_pc = "read"
  /\ a_pc' = AudioAfterReadError
  /\ audio_threads' = audio_threads - 1
  /\ UNCHANGED <<uiVars, sharedVars, fnVars,
                 pattern_threads, drain_scheduled, stats_seen, patternVars, sinkVars>>
  /\ UNCHANGED <<smoothed_intensity, a_frame, a_age, frames_left>>
  /\ UNCHANGED <<sink_ok, commands_sent, status_error, device_error_cb, sensitivity,
                 frequency_focus, verbose_logging, cached_verbose_logging,
                 pattern_type, since_type_change, pattern_time, p_elapsed,
                 visualizer_enabled, visualizer_animation, visualizer_data,
                 visualizer_smoothed>>

\* should_send alone, without the zero-suppression test
AudioShouldSendUnsuppressed(dev, enabled, age, level, has_last, last) ==
  dev /\ enabled /\ age >= SendIntervalMs

\* should_send and the zero-suppression test of the audio path
AudioShouldSend(dev, enabled, age, level, has_last, last) ==
  /\ dev /\ enabled /\ age >= SendIntervalMs
  /\ (level > 0 \/ (has_last /\ last > 0))

\* from "Store frequency data" to the should_send test of one iteration, delta_time
\* being one of `dts`
AudioProcessWith(dts) ==
  /\ a_pc = "process"
  /\ Len(ui_update_queue) < MaxQueue
  /\ \E dt \in dts :
       LET mix == CalculateFrequencyMix(a_frame[1], a_frame[2], a_frame[3],
                                        cached_frequency_focus)
           target == TargetIntensity(a_frame, cached_frequency_focus, cached_sensitivity)
           sm == ApplyAudioSmoothing(smoothing_type, smoothing_strength,
                                     smoothed_intensity, target, dt,
                                     has_audio_velocity, audio_velocity)
           level == CapIntensity(sm.out)
       IN  /\ smoothed_intensity' = sm.out
           /\ has_audio_velocity' = sm.has
           /\ audio_velocity' = sm.vel
           /\ audio_intensity' = level
           /\ ui_update_queue' = Append(ui_update_queue,
                [k |-> "bars",
                 v |-> <<Pct(a_frame[1]), Pct(a_frame[2]), Pct(a_frame[3]),
                         Pct(mix), Pct(level)>>])
           /\ a_pc' = IF AudioShouldSend(device, audio_enabled, a_age, level,
                                         has_last_sent, last_sent_intensity)
                        THEN "put" ELSE "check"
  /\ visualizer_data' = VizPeak(a_frame)
  /\ UNCHANGED <<uiVars, patternVars, sinkVars>>
  /\ UNCHANGED <<audio_enabled, pattern_enabled, running, stream,
                 pattern_current_intensity, has_last_sent, last_sent_intensity,
                 cached_frequency_focus, cached_sensitivity, pattern_intensity, fnVars,
                 schedVars, async_q>>
  /\ UNCHANGED <<a_frame, a_age, frames_left>>
  /\ UNCHANGED <<sink_ok, commands_sent, status_error, device_error_cb, sensitivity,
                 frequency_focus, verbose_logging, cached_verbose_logging,
                 pattern_type, since_type_change, pattern_time, p_elapsed,
                 visualizer_enabled, visualizer_animation, visualizer_smoothed>>

AudioProcess == AudioProcessWith(AudioDeltaTimes)

\* ui_update_queue.put(self.update_device_from_audio) and the bookkeeping after it
AudioPut ==
  /\ a_pc = "put"
  /\ Len(ui_update_queue) < MaxQueue
  /\ PutReturns(ui_update_queue, async_q)
  /\ ui_update_queue' = Append(ui_update_queue, [k |-> "dev_audio", v |-> <<>>])
  /\ a_age' = 0
  /\ has_last_sent' = TRUE
  /\ last_sent_intensity' = audio_intensity
  /\ a_pc' = "check"
  /\ UNCHANGED <<uiVars, patternVars, sinkVars>>
  /\ UNCHANGED <<audio_enabled, pattern_enabled, running, stream, audio_intensity,
                 pattern_current_intensity, has_audio_velocity, audio_velocity,
                 cached_frequency_focus, cached_sensitivity, pattern_intensity, fnVars,
                 schedVars, async_q>>
  /\ UNCHANGED <<smoothed_intensity, a_frame, frames_left>>
  /\ UNCHANGED <<sink_ok, commands_sent, status_error, device_error_cb, sensitivity,
                 frequency_focus, verbose_logging, cached_verbose_logging,
                 pattern_type, since_type_change, pattern_time, p_elapsed,
                 visualizer_enabled, visualizer_animation, visualizer_data,
                 visualizer_smoothed>>

(***************************************************************************)
(* Pattern worker thread                                                   *)
(***************************************************************************)

\* a loop condition that does not consult the channel's flag
PatternLoopIgnoringFlag == running

\* while self.pattern_enabled and self.running
PatternLoopCondition == pattern_enabled /\ running

PatternCheck ==
  /\ p_pc = "check"
  /\ p_pc' = IF PatternLoopCondition THEN "gen" ELSE "ended"
  /\ pattern_threads' = IF PatternLoopCondition THEN pattern_threads ELSE pattern_threads - 1
  /\ pattern_time' = IF PatternLoopCondition THEN p_elapsed ELSE pattern_time
  /\ UNCHANGED <<uiVars, sharedVars, fnVars,
                 audio_threads, drain_scheduled, stats_seen, audioVars, sinkVars, p_age>>
  /\ UNCHANGED <<sink_ok, commands_sent, status_error, device_error_cb, sensitivity,
                 frequency_focus, verbose_logging, cached_verbose_logging,
                 pattern_type, since_type_change, p_elapsed, visualizer_enabled,
                 visualizer_animation, visualizer_data, visualizer_smoothed>>

\* should_send of the pattern path
PatternShouldSend(dev, enabled, age) == dev /\ enabled /\ age >= SendIntervalMs

\* from "Get current pattern settings" to the should_send test of one iteration
PatternGen ==
  /\ p_pc = "gen"
  /\ Len(ui_update_queue) < MaxQueue
  /\ \E base \in PatternBaseValues :
       LET level == (base * pattern_intensity) \div 100
       IN  /\ pattern_current_intensity' = level
           /\ ui_update_queue' = Append(ui_update_queue,
                                        [k |-> "plevel", v |-> <<Pct(level)>>])
  /\ p_pc' = IF PatternShouldSend(device, pattern_enabled, p_age) THEN "put" ELSE "check"
  /\ since_type_change' = NoChange
  /\ UNCHANGED <<uiVars, audioVars, sinkVars, p_age>>
  /\ UNCHANGED <<audio_enabled, pattern_enabled, running, stream, audio_intensity,
                 has_audio_velocity, audio_velocity, has_last_sent, last_sent_intensity,
                 cached_frequency_focus, cached_sensitivity, pattern_intensity, fnVars,
                 schedVars, async_q>>
  /\ UNCHANGED <<sink_ok, commands_sent, status_error, device_error_cb, sensitivity,
                 frequency_focus, verbose_logging, cached_verbose_logging,
                 pattern_type, pattern_time, p_elapsed, visualizer_enabled,
                 visualizer_animation, visualizer_data, visualizer_smoothed>>

\* ui_update_queue.put(self.update_device_from_pattern); last_send_time = current_time
PatternPut ==
  /\ p_pc = "put"
  /\ Len(ui_update_queue) < MaxQueue
  /\ PutReturns(ui_update_queue, async_q)
  /\ ui_update_queue' = Append(ui_update_queue, [k |-> "dev_pattern", v |-> <<>>])
  /\ p_age' = 0
  /\ p_pc' = "check"
  /\ UNCHANGED <<uiVars, audioVars, sinkVars>>
  /\ UNCHANGED <<audio_enabled, pattern_enabled, running, stream, audio_intensity,
                 pattern_current_intensity, has_audio_velocity, audio_velocity,
                 has_last_sent, last_sent_intensity, cached_frequency_focus,
                 cached_sensitivity, pattern_intensity, fnVars, schedVars, async_q>>
  /\ UNCHANGED <<sink_ok, commands_sent, status_error, device_error_cb, sensitivity,
                 frequency_focus, verbose_logging, cached_verbose_logging,
                 pattern_type, since_type_change, pattern_time, p_elapsed,
                 visualizer_enabled, visualizer_animation, visualizer_data,
                 visualizer_smoothed>>

(***************************************************************************)
(* Statistics, status line and the sink's health                           *)
(***************************************************************************)

\* the actuator starts to reject commands (its command(...) raises)
SinkBreaks ==
  /\ sink_ok
  /\ sink_ok' = FALSE
  /\ UNCHANGED <<uiVars, sharedVars, fnVars, schedVars, audioVars, patternVars, sinkVars>>
  /\ UNCHANGED <<commands_sent, status_error, device_error_cb>>
  /\ UNCHANGED <<paramVars, clockVars, visVars>>

\* the after(0) lambda of send_intensity's except branch: status_text.set("Device error: ...")
DeviceErrorStatus ==
  /\ ui_pc = "idle"
  /\ device_error_cb
  /\ device_error_cb' = FALSE
  /\ status_error' = TRUE
  /\ UNCHANGED <<uiVars, sharedVars, fnVars, schedVars, audioVars, patternVars, sinkVars>>
  /\ UNCHANGED <<sink_ok, commands_sent>>
  /\ UNCHANGED <<paramVars, clockVars, visVars>>

\* update_statistics, run by root.after(1000, ...): a second has passed, the label is
\* refreshed and the counter starts again
UpdateStatistics ==
  /\ ui_pc = "idle"
  /\ commands_sent > 0
  /\ commands_sent' = 0
  /\ UNCHANGED <<uiVars, sharedVars, fnVars, schedVars, audioVars, patternVars, sinkVars>>
  /\ UNCHANGED <<sink_ok, status_error, device_error_cb>>
  /\ UNCHANGED <<paramVars, clockVars, visVars>>

(***************************************************************************)
(* Tk thread: parameter widgets                                            *)
(***************************************************************************)

\* a trace callback that leaves the cached cell as it was
KeepCell(ui, cell) == cell

\* cache_sensitivity_value / cache_frequency_focus_value / cache_verbose_logging_value:
\* the cell takes the Tk variable's value
CacheValue(ui, cell) == ui

\* the sensitivity slider writes self.sensitivity; the 'write' traces run
SensitivityChanged(v) ==
  /\ OperatorActs
  /\ ui_pc = "idle"
  /\ v # sensitivity
  /\ sensitivity' = v
  /\ cached_sensitivity' = CacheValue(v, cached_sensitivity)
  /\ UNCHANGED <<panelVars, audioVars, patternVars, sinkVars>>
  /\ UNCHANGED <<audio_enabled, pattern_enabled, running, stream, audio_intensity,
                 pattern_current_intensity, has_audio_velocity, audio_velocity,
                 has_last_sent, last_sent_intensity, cached_frequency_focus,
                 pattern_intensity, fnVars, schedVars, ui_update_queue, async_q>>
  /\ UNCHANGED <<frequency_focus, verbose_logging, cached_verbose_logging>>
  /\ UNCHANGED <<statVars, clockVars, visVars>>

\* the focus slider writes self.frequency_focus; the 'write' traces run
FrequencyFocusChanged(f) ==
  /\ OperatorActs
  /\ ui_pc = "idle"
  /\ f # frequency_focus
  /\ frequency_focus' = f
  /\ cached_frequency_focus' = CacheValue(f, cached_frequency_focus)
  /\ UNCHANGED <<panelVars, audioVars, patternVars, sinkVars>>
  /\ UNCHANGED <<audio_enabled, pattern_enabled, running, stream, audio_intensity,
                 pattern_current_intensity, has_audio_velocity, audio_velocity,
                 has_last_sent, last_sent_intensity, cached_sensitivity,
                 pattern_intensity, fnVars, schedVars, ui_update_queue, async_q>>
  /\ UNCHANGED <<sensitivity, verbose_logging, cached_verbose_logging>>
  /\ UNCHANGED <<statVars, clockVars, visVars>>

\* the verbose checkbutton writes self.verbose_logging; the 'write' trace runs, then
\* toggle_verbose_logging
ToggleVerboseLogging ==
  /\ OperatorActs
  /\ ui_pc = "idle"
  /\ verbose_logging' = ~verbose_logging
  /\ cached_verbose_logging' = CacheValue(~verbose_logging, cached_verbose_logging)
  /\ UNCHANGED <<panelVars, sharedVars, fnVars, schedVars, audioVars, patternVars, sinkVars>>
  /\ UNCHANGED <<sensitivity, frequency_focus>>
  /\ UNCHANGED <<statVars, clockVars, visVars>>

\* on_pattern_type_changed: the operator picks a waveform
OnPatternTypeChanged(t) ==
  /\ OperatorActs
  /\ ui_pc = "idle"
  /\ t # pattern_type
  /\ pattern_type' = t
  /\ pattern_time' = 0
  /\ since_type_change' = IF pattern_enabled /\ PatternThreadAlive THEN 0 ELSE NoChange
  /\ UNCHANGED <<panelVars, sharedVars, fnVars, schedVars, audioVars, patternVars, sinkVars>>
  /\ UNCHANGED p_elapsed
  /\ UNCHANGED <<statVars, paramVars, visVars>>

\* toggle_visualizer: start_visualizer creates the animation, stop_visualizer drops it
ToggleVisualizer ==
  /\ OperatorActs
  /\ ui_pc = "idle"
  /\ visualizer_enabled' = ~visualizer_enabled
  /\ visualizer_animation' = ~visualizer_enabled
  /\ UNCHANGED <<panelVars, sharedVars, fnVars, schedVars, audioVars, patternVars, sinkVars>>
  /\ UNCHANGED <<visualizer_data, visualizer_smoothed>>
  /\ UNCHANGED <<statVars, paramVars, clockVars>>

\* update_visualizer(frame), run by the animation's timer on the Tk thread
UpdateVisualizer ==
  /\ ui_pc = "idle"
  /\ visualizer_animation /\ visualizer_enabled
  /\ visualizer_smoothed' = (300 * visualizer_smoothed + 700 * visualizer_data) \div 1000
  /\ visualizer_smoothed' # visualizer_smoothed
  /\ UNCHANGED <<uiVars, sharedVars, fnVars, schedVars, audioVars, patternVars, sinkVars>>
  /\ UNCHANGED <<visualizer_enabled, visualizer_animation, visualizer_data>>
  /\ UNCHANGED <<statVars, paramVars, clockVars>>

(***************************************************************************)
(* Time                                                                    *)
(***************************************************************************)
Older(age) == Min(SendIntervalMs, age + TickMs)

\* the pattern clocks after TickMs: values from TickMs on are not told apart
OlderClock(t) == Min(TickMs, t + TickMs)

\* TickMs pass: every "time since" grows, up to the interval the code compares it with
Tick ==
  /\ a_age' = Older(a_age)
  /\ p_age' = Older(p_age)
  /\ sink_age' = Older(sink_age)
  /\ p_elapsed' = IF PatternThreadAlive THEN OlderClock(p_elapsed) ELSE p_elapsed
  /\ since_type_change' = IF since_type_change = NoChange
                             THEN NoChange ELSE OlderClock(since_type_change)
  /\ <<a_age', p_age', sink_age', p_elapsed', since_type_change'>>
       # <<a_age, p_age, sink_age, p_elapsed, since_type_change>>
  /\ UNCHANGED <<uiVars, sharedVars, fnVars, schedVars, dev_level, stop_in_force>>
  /\ UNCHANGED <<a_pc, smoothed_intensity, a_frame, frames_left, p_pc>>
  /\ UNCHANGED <<sink_ok, commands_sent, status_error, device_error_cb, sensitivity,
                 frequency_focus, verbose_logging, cached_verbose_logging,
                 pattern_type, pattern_time, visualizer_enabled, visualizer_animation,
                 visualizer_data, visualizer_smoothed>>

\* every thread's steps that no operator action is
Background ==
  \/ EmergencyStopCleanup
  \/ DrainItem \/ DrainDone \/ ZeroAudioBars \/ ZeroPatternLevel
  \/ UpdateConnectionStatus
  \/ SendIntensity \/ DeviceStop \/ UpdateStatistics
  \/ AudioCheck \/ AudioRead \/ AudioReadError \/ AudioProcess \/ AudioPut

\* The operator connects, switches both channels, moves the manual slider and hits the
\* emergency stop; the smoothing type stays as constructed.
Next ==
  \/ ToggleAudioOnStart \/ ToggleAudioOnAlive \/ ToggleAudioOff
  \/ TogglePatternOnStart \/ TogglePatternOnAlive \/ TogglePatternOff
  \/ \E v \in ManualPositions : ManualIntensityChanged(v)
  \/ EmergencyStopBegin
  \/ ConnectToServer \/ DisconnectFromServer
  \/ Background
  \/ PatternCheck \/ PatternGen \/ PatternPut
  \/ Tick

Spec == Init /\ [][Next]_vars

\* The operator uses the audio channel, the smoothing type and the emergency stop.
StopNext ==
  \/ ToggleAudioOnStart \/ ToggleAudioOnAlive \/ ToggleAudioOff
  \/ \E t \in SmoothingTypes : OnSmoothingTypeChanged(t)
  \/ EmergencyStopBegin
  \/ ConnectToServer
  \/ Background
  \/ Tick

StopSpec == Init /\ [][StopNext]_vars

\* The audio path alone, no device: any sensitivity, focus and strength the sliders
\* allow are set before the channel is started, the smoothing type is switched while it
\* runs, and the source delivers any frame after any delay.
SmoothInit ==
  \E t \in SmoothingTypes, st \in StrengthPositions,
     se \in SensitivityValues, fo \in FocusValues :
    /\ ops = 0
    /\ ui_pc = "idle"
    /\ audio_enabled_var = FALSE /\ pattern_enabled_var = FALSE
    /\ intensity = 0 /\ manual_intensity = 0
    /\ connected = FALSE /\ device = FALSE /\ conn_cb = "none"
    /\ smoothing_type = t /\ smoothing_strength = (st * SCALE) \div 100
    /\ audio_bars = ZeroBars /\ pattern_level_var = 0
    /\ zero_audio_cb = FALSE /\ zero_pattern_cb = FALSE
    /\ audio_enabled = FALSE /\ pattern_enabled = FALSE /\ running = TRUE
    /\ stream = FALSE
    /\ audio_intensity = 0 /\ pattern_current_intensity = 0
    /\ has_audio_velocity = FALSE /\ audio_velocity = 0
    /\ has_last_sent = FALSE /\ last_sent_intensity = 0
    /\ cached_frequency_focus = fo /\ cached_sensitivity = se
    /\ pattern_intensity = DefaultPatternIntensity
    /\ audio_data = NoData
    /\ pattern_rate = DefaultPatternRate /\ pattern_randomness = 0
    /\ ui_update_queue = <<>> /\ async_q = <<>>
    /\ a_pc = "dead" /\ smoothed_intensity = 0 /\ a_frame = <<0, 0, 0>>
    /\ audio_threads = 0 /\ pattern_threads = 0
    /\ drain_scheduled = TRUE /\ stats_seen = 0
    /\ a_age = SendIntervalMs /\ frames_left = MaxFrames
    /\ p_pc = "dead" /\ p_age = SendIntervalMs
    /\ dev_level = 0 /\ sink_age = SendIntervalMs /\ stop_in_force = "no"
    /\ sink_ok = TRUE /\ commands_sent = 0
    /\ status_error = FALSE /\ device_error_cb = FALSE
    /\ sensitivity = se /\ frequency_focus = fo
    /\ verbose_logging = FALSE /\ cached_verbose_logging = FALSE
    /\ pattern_type = "wave" /\ pattern_time = 0 /\ p_elapsed = 0
    /\ since_type_change = NoChange
    /\ visualizer_enabled = TRUE /\ visualizer_animation = FALSE
    /\ visualizer_data = 0 /\ visualizer_smoothed = 0

SmoothNext ==
  \/ ToggleAudioOnStart \/ ToggleAudioOff
  \/ \E t \in SmoothingTypes : OnSmoothingTypeChanged(t)
  \/ AudioCheck
  \/ AudioReadFrom(WideAnalyzerOutputs)
  \/ AudioProcessWith(WideDeltaTimes)
  \/ DrainItem \/ DrainDone \/ ZeroAudioBars

SmoothSpec == SmoothInit /\ [][SmoothNext]_vars

\* Both channels drive a connected device whose actuator, from some moment on, rejects
\* every command; the audio source is never silent.
DispatchNext ==
  \/ ConnectToServer
  \/ ToggleAudioOnStart \/ TogglePatternOnStart
  \/ SinkBreaks
  \/ SendIntensity \/ DeviceErrorStatus \/ UpdateStatistics
  \/ UpdateConnectionStatus
  \/ DrainItem \/ DrainDone
  \/ AudioCheck \/ AudioReadFrom(LoudOutputs) \/ AudioProcess \/ AudioPut
  \/ PatternCheck \/ PatternGen \/ PatternPut
  \/ Tick

DispatchSpec == Init /\ [][DispatchNext]_vars

\* The operator works the parameter widgets (sensitivity, focus, verbose logging,
\* waveform, visualizer) while the channels run without a device.
PanelNext ==
  \/ ToggleAudioOnStart \/ TogglePatternOnStart
  \/ \E v \in SensitivityValues : SensitivityChanged(v)
  \/ \E f \in FocusValues : FrequencyFocusChanged(f)
  \/ ToggleVerboseLogging
  \/ \E t \in PatternTypes : OnPatternTypeChanged(t)
  \/ ToggleVisualizer \/ UpdateVisualizer
  \/ DrainItem \/ DrainDone
  \/ AudioCheck \/ AudioRead \/ AudioProcess
  \/ PatternCheck \/ PatternGen
  \/ Tick

PanelSpec == Init /\ [][PanelNext]_vars

(***************************************************************************)
(* Events and state predicates the properties speak of                     *)
(***************************************************************************)

\* this step hands send_intensity(v) to the asyncio loop
Dispatches == /\ Len(async_q') = Len(async_q) + 1
              /\ async_q'[Len(async_q')] # StopCmd
Dispatched == async_q'[Len(async_q')]

\* this step is an intensity command reaching the actuator of a present device
Delivers == /\ async_q # <<>> /\ Head(async_q) # StopCmd
            /\ async_q' = Tail(async_q)
            /\ device

\* no item of kind k waits in ui_update_queue
NoneQueued(k) == \A i \in 1..Len(ui_update_queue) : ui_update_queue[i].k # k

\* nothing is left that could still send a command or touch a bar without the operator
Settled ==
  /\ ui_pc = "idle" /\ ui_update_queue = <<>> /\ async_q = <<>>
  /\ ~zero_audio_cb /\ ~zero_pattern_cb /\ conn_cb = "none"
  /\ ~AudioThreadAlive /\ ~PatternThreadAlive

(***************************************************************************)
(* Properties                                                              *)
(***************************************************************************)

\* the emergency stop handler returns in this step
EmergencyStopReturns == ui_pc = "es_cleanup" /\ ui_pc' = "idle"

\* C1: when emergency_stop returns, the manual intensity is 0, both channels are
\* disabled, the momentum velocity (if it exists) is 0, and the stop command has been
\* issued to the actuator of a present device.
C1_EmergencyStopPostState ==
  [][EmergencyStopReturns =>
       /\ intensity' = 0 /\ manual_intensity' = 0
       /\ ~audio_enabled' /\ ~pattern_enabled'
       /\ ~audio_enabled_var' /\ ~pattern_enabled_var'
       /\ (has_audio_velocity' => audio_velocity' = 0)
       /\ (device' => stop_in_force' # "no")]_vars

\* C7: the published audio intensity lies in [0, 0.8].
C7_AudioIntensityCapped == 0 <= audio_intensity /\ audio_intensity <= CapMilli

\* the smoother returned more than the cap and the published value is the cap
C7_Witness == smoothed_intensity > CapMilli /\ audio_intensity = CapMilli

\* C2: once the emergency stop's stop command has reached the actuator, and until the
\* operator enables a channel or moves the manual slider, no nonzero intensity command
\* reaches it: the actuator stays at level 0.
C2_StopTakesPrecedence == stop_in_force = "delivered" => dev_level = 0

\* C3: an intensity command reaches the actuator less than the send interval after the
\* previous one only if it is a zero/nonzero transition, whichever paths emitted the two.
C3_GlobalRateLimit ==
  [][Delivers =>
       \/ sink_age >= SendIntervalMs
       \/ (dev_level = 0) # (Head(async_q) = 0)]_vars

\* C4: when nothing is left running or pending (both channels off, manual slider at 0,
\* workers exited, queues drained), a connected actuator has received the zero: it is
\* not left running at a nonzero level.
C4_ZeroTransitionSent ==
  (/\ Settled /\ device /\ connected
   /\ ~audio_enabled /\ ~pattern_enabled /\ intensity = 0)
  => dev_level = 0

\* C5: with the audio and the pattern channel both active, every intensity command
\* dispatched carries max(audio intensity, pattern intensity, manual intensity).
C5_DispatchCarriesMaxOfAll ==
  [][(Dispatches /\ audio_enabled' /\ pattern_enabled')
       => Dispatched = Max3(audio_intensity', pattern_current_intensity',
                            ManualVal(intensity'))]_vars

\* the value of a channel as the arbiter should see it: nothing while it is disabled
ActiveValue(enabled, value) == IF enabled THEN value ELSE 0

\* C6: every intensity command dispatched carries the max over the active channels
\* (a disabled channel counts for nothing, the manual slider for its position).
C6_ArbiterMaxOfActive ==
  [][Dispatches
       => Dispatched = Max3(ActiveValue(audio_enabled', audio_intensity'),
                            ActiveValue(pattern_enabled', pattern_current_intensity'),
                            ManualVal(intensity'))]_vars

\* C8: a worker that evaluates its loop condition while its channel's flag is false
\* exits, and an exited worker takes no further step: only an operator's start makes
\* a (new) worker run again.
C8_LoopExitsOnFlag ==
  [][/\ (a_pc = "check" /\ ~audio_enabled /\ a_pc' # a_pc) => a_pc' = "ended"
     /\ (p_pc = "check" /\ ~pattern_enabled /\ p_pc' # p_pc) => p_pc' = "ended"
     /\ (a_pc \in {"ended", "crashed"} /\ a_pc' # a_pc)
          => (a_pc' = "check" /\ ops' = ops + 1 /\ audio_enabled')
     /\ (p_pc = "ended" /\ p_pc' # p_pc)
          => (p_pc' = "check" /\ ops' = ops + 1 /\ pattern_enabled')]_vars

\* both workers have exited on their flag
C8_Witness == a_pc = "ended" /\ p_pc = "ended" /\ ~audio_enabled /\ ~pattern_enabled

\* C9: once a channel is stopped, its worker has exited and every pending presentation
\* update (queued entries, the stop's own resets) has been processed, its bars show 0.
C9_BarsZeroAfterStop ==
  /\ (/\ ~audio_enabled /\ ~AudioThreadAlive /\ ~zero_audio_cb
      /\ NoneQueued("bars") /\ ui_pc = "idle")
     => audio_bars = ZeroBars
  /\ (/\ ~pattern_enabled /\ ~PatternThreadAlive /\ ~zero_pattern_cb
      /\ NoneQueued("plevel") /\ ui_pc = "idle")
     => pattern_level_var = 0

\* C10: after the audio worker has left its loop through the except branch (a read
\* that raised), the audio channel is marked disabled.
C10_ReadErrorDisablesChannel == a_pc = "crashed" => ~audio_enabled

\* an intensity command reaches the actuator and is taken / is rejected
AcceptedSend == Delivers /\ sink_ok
FailedSend == Delivers /\ ~sink_ok

\* C11: a send the actuator rejects is reported (the status callback is scheduled and,
\* when it runs, the status line shows the device error), is not put back on the
\* loop, and leaves the workers, the channel flags and the device as they were, so the
\* next scheduled send is attempted.
C11_FailureReportedNotRetried ==
  [][/\ FailedSend =>
          /\ device_error_cb'
          /\ Len(async_q') = Len(async_q) - 1
          /\ UNCHANGED <<a_pc, p_pc, audio_enabled, pattern_enabled, device, connected,
                         ui_update_queue>>
     /\ (device_error_cb /\ ~device_error_cb') => status_error']_vars

\* a failure was reported and the next send is on the loop
C11_Witness ==
  /\ ~sink_ok /\ status_error /\ device
  /\ async_q # <<>> /\ Head(async_q) # StopCmd
  /\ AudioThreadAlive /\ PatternThreadAlive

C19_WorkersNeverWaitForSink ==
  /\ a_pc = "check" => ENABLED AudioCheck
  /\ (a_pc = "process" /\ Len(ui_update_queue) < MaxQueue) => ENABLED AudioProcess
  /\ (a_pc = "put" /\ Len(ui_update_queue) < MaxQueue) => ENABLED AudioPut
  /\ p_pc = "check" => ENABLED PatternCheck
  /\ (p_pc = "gen" /\ Len(ui_update_queue) < MaxQueue) => ENABLED PatternGen
  /\ (p_pc = "put" /\ Len(ui_update_queue) < MaxQueue) => ENABLED PatternPut

\* the actuator rejects commands, the loop is full, and both workers have just handed
\* over a send and are back at their loop checks
C19_Witness ==
  /\ ~sink_ok /\ Len(async_q) = MaxAsync
  /\ a_pc = "check" /\ a_age = 0 /\ audio_intensity > 0
  /\ p_pc = "check" /\ p_age = 0

\* a capacity below the length to which the model follows the queue
QueueCapacity == MaxQueue - 1

\* C13: the update queue is bounded: the number of pending updates never exceeds a
\* fixed capacity (here any capacity below the model's horizon), because a producer
\* finding the queue full drops its update.
C13_UpdateQueueBounded == Len(ui_update_queue) <= QueueCapacity

\* this step changes what the bars or the visualizer show
PresentationChanges ==
  \/ audio_bars' # audio_bars
  \/ pattern_level_var' # pattern_level_var
  \/ visualizer_smoothed' # visualizer_smoothed

\* C14: what the producers compute reaches the presentation state (audio bars, pattern
\* level, visualizer bins) only as an entry of ui_update_queue taken by the Tk thread:
\* every step changing presentation state consumes the head of the queue, or is one of
\* the resets to zero that stop_audio / stop_pattern schedule.
C14_PresentationOnlyThroughQueue ==
  [][PresentationChanges =>
       \/ ui_update_queue # <<>> /\ ui_update_queue' = Tail(ui_update_queue)
       \/ zero_audio_cb /\ ~zero_audio_cb'
       \/ zero_pattern_cb /\ ~zero_pattern_cb']_vars

\* the Tk variables behind the parameter widgets
UiOwnedVariables ==
  {"sensitivity", "frequency_focus", "verbose_logging",
   "pattern_intensity", "pattern_rate", "pattern_randomness"}

\* the parameter cells the audio worker reads at a position of its loop
AudioReadsAt(pc) ==
  IF pc = "process"
    THEN {"_cached_frequency_focus", "_cached_sensitivity", "_cached_verbose_logging"}
    ELSE IF pc = "put" THEN {"_cached_verbose_logging"} ELSE {}

\* the parameter cells the pattern worker reads at a position of its loop
PatternReadsAt(pc) ==
  IF pc = "gen"
    THEN {"pattern_intensity", "pattern_rate", "pattern_randomness",
          "_cached_verbose_logging"}
    ELSE IF pc = "put" THEN {"verbose_logging"} ELSE {}

\* C15: wherever a worker stands, the parameter cells it reads there are cached cells,
\* none of them a Tk variable.
C15_WorkersReadCachedCells ==
  (AudioReadsAt(a_pc) \cup PatternReadsAt(p_pc)) \cap UiOwnedVariables = {}

\* C16: whenever the Tk thread is between handlers, each cached cell equals its Tk
\* variable.
C16_CachedCellsFollowUi ==
  ui_pc = "idle" =>
    /\ cached_sensitivity = sensitivity
    /\ cached_frequency_focus = frequency_focus
    /\ cached_verbose_logging = verbose_logging

\* all three parameters were changed and the audio worker is about to read the cells
C16_Witness ==
  /\ sensitivity # DefaultSensitivity /\ cached_sensitivity = sensitivity
  /\ frequency_focus # 0 /\ cached_frequency_focus = frequency_focus
  /\ verbose_logging /\ cached_verbose_logging

\* C18: the first sample generated after a waveform change made while the pattern
\* channel is active is computed from an elapsed time that restarted at the change: the
\* time it is computed from is no longer than the time since the change.
C18_TypeChangeRestartsClock ==
  [][(p_pc = "gen" /\ p_pc' # "gen" /\ since_type_change # NoChange)
       => pattern_time <= since_type_change]_vars

\* the operator moves the manual slider in this step
ManualStep == \E v \in ManualPositions : ManualIntensityChanged(v)

\* C17: a manual slider change dispatches, and then dispatches the manual value, exactly
\* when a connected device is present and neither channel is enabled; with a channel
\* enabled the change dispatches nothing.
C17_ManualOnlyWhenChannelsOff ==
  [][ManualStep =>
       /\ Dispatches <=> (device /\ connected /\ ~audio_enabled /\ ~pattern_enabled)
       /\ Dispatches => Dispatched = ManualVal(intensity')]_vars

\* the slider was moved up while the pattern channel drives a connected device, and
\* nothing has been sent
C17_Witness ==
  /\ intensity > 0 /\ manual_intensity = ManualVal(intensity)
  /\ pattern_enabled /\ device /\ connected
  /\ async_q = <<>> /\ NoneQueued("dev_pattern") /\ dev_level = 0 /\ commands_sent = 0

\* C20: with smoothing type "none" an audio iteration's smoothed value is exactly the
\* target of its frame, whatever the previous value and the delta time, and the
\* momentum velocity is left as it was.
C20_NoneReturnsTarget ==
  [][(a_pc = "process" /\ a_pc' # "process" /\ smoothing_type = "none") =>
       /\ smoothed_intensity' = TargetIntensity(a_frame, cached_frequency_focus,
                                                cached_sensitivity)
       /\ UNCHANGED <<has_audio_velocity, audio_velocity>>]_vars

\* a frame was smoothed with momentum, the type was switched to "none", and the second
\* frame's target came out unchanged, the velocity still being there
C20_Witness ==
  /\ smoothing_type = "none" /\ a_pc = "check" /\ frames_left = 0
  /\ has_audio_velocity /\ audio_velocity # 0
  /\ smoothed_intensity > 0
  /\ smoothed_intensity = TargetIntensity(a_frame, cached_frequency_focus,
                                          cached_sensitivity)

\* an audio iteration's smoothing step under the given smoothing type
SmoothingStep(type) ==
  a_pc = "process" /\ a_pc' # "process" /\ smoothing_type = type

\* the target of the iteration in progress
StepTarget == TargetIntensity(a_frame, cached_frequency_focus, cached_sensitivity)

\* strength * current + (1 - strength) * target of the iteration in progress
SimpleBlend ==
  (smoothing_strength * smoothed_intensity
     + (SCALE - smoothing_strength) * StepTarget) \div SCALE

\* C21: in smoothing type "simple" one step returns strength*current +
\* (1-strength)*target, and the result is forced to 0 only when that blend is below
\* the cutoff and the target is 0.
C21_SimpleBlendCutoffOnlyAtZeroTarget ==
  [][SmoothingStep("simple") =>
       smoothed_intensity' = IF SimpleBlend < CutoffMilli /\ StepTarget = 0
                               THEN 0 ELSE SimpleBlend]_vars

\* ---------------------------------------------------------------------------------
\* The analyzer and the pattern generator, computed
\* ---------------------------------------------------------------------------------

\* rms_threshold = 0.005, in thousandths
RmsThreshold == 5
\* np.sum(magnitudes) < 1.0, magnitudes in tenths
SpectrumGateTenths == 10
\* total_threshold = 15.0, in tenths
TotalThresholdTenths == 150
\* np.zeros(64): the length of the spectrum handed to the visualizer
VizBins == 64
\* visualizer_data < 0.15 is zeroed, in thousandths
VizCutMilli == 150

\* freqs of the model's spectrum (Hz): one bin below 20 Hz, three in the bass band,
\* three in the mids, three in the treble, one above 20 kHz
BinFreqs == <<0, 43, 129, 215, 1000, 2000, 3000, 6000, 10000, 15000, 21500>>

RECURSIVE SumSeq(_)
SumSeq(m) == IF m = <<>> THEN 0 ELSE Head(m) + SumSeq(Tail(m))

\* the k-th smallest value of m, k counted from 0
KthSmallest(m, k) ==
  CHOOSE v \in {m[i] : i \in DOMAIN m} :
    /\ Cardinality({i \in DOMAIN m : m[i] < v}) <= k
    /\ Cardinality({i \in DOMAIN m : m[i] <= v}) > k

\* np.percentile(magnitudes, 60): linear interpolation between the two nearest ranks
Percentile60(m) ==
  LET pos  == 6 * (Len(m) - 1)
      lo   == pos \div 10
      frac == pos % 10
      a    == KthSmallest(m, lo)
      b    == IF lo + 1 < Len(m) THEN KthSmallest(m, lo + 1) ELSE a
  IN  a + ((b - a) * frac) \div 10

\* np.zeros(64)
ZeroViz == [i \in 1..VizBins |-> 0]

\* an analyzer that returns the band sums as they are, without dividing by their total
AnalyzeUnnormalized(data) ==
  LET bass   == data.mags[2] + data.mags[3] + data.mags[4]
      mids   == data.mags[5] + data.mags[6] + data.mags[7]
      treble == data.mags[8] + data.mags[9] + data.mags[10]
  IN  IF data.rms < RmsThreshold
        THEN [bands |-> <<0, 0, 0>>, viz |-> ZeroViz, gate |-> "rms"]
        ELSE [bands |-> <<Min(SCALE, bass), Min(SCALE, mids), Min(SCALE, treble)>>,
              viz |-> ZeroViz, gate |-> "none"]

\* an analyzer that goes on to the spectrum of a frame below the RMS threshold
AnalyzeIgnoringRms(data) ==
  LET bass   == data.mags[2] + data.mags[3] + data.mags[4]
      mids   == data.mags[5] + data.mags[6] + data.mags[7]
      treble == data.mags[8] + data.mags[9] + data.mags[10]
      total  == bass + mids + treble
  IN  IF total < TotalThresholdTenths
        THEN [bands |-> <<0, 0, 0>>, viz |-> ZeroViz, gate |-> "energy"]
        ELSE [bands |-> <<(bass * SCALE) \div total, (mids * SCALE) \div total,
                          (treble * SCALE) \div total>>,
              viz |-> [i \in 1..VizBins |-> IF i <= Len(data.mags) /\ data.mags[i] > 0
                                              THEN SCALE ELSE 0],
              gate |-> "none"]

\* analyze_frequency_bands(audio_data): [bands, viz, gate], gate the return statement
\* taken ("rms", "spectrum", "energy", or "none" for the normal return)
AnalyzeFrequencyBands(data) ==
  LET noise_floor      == Percentile60(data.mags)
      signal_threshold == noise_floor * 3
      magnitudes == [i \in DOMAIN data.mags |->
                       IF data.mags[i] > signal_threshold
                         THEN data.mags[i] - noise_floor ELSE 0]
      BandEnergy(lo, hi) ==
        SumSeq([i \in DOMAIN magnitudes |->
                  IF BinFreqs[i] >= lo /\ BinFreqs[i] <= hi THEN magnitudes[i] ELSE 0])
      bass_energy   == BandEnergy(20, 250)
      mids_energy   == BandEnergy(250, 4000)
      treble_energy == BandEnergy(4000, 20000)
      total_energy  == bass_energy + mids_energy + treble_energy
      padded  == [i \in 1..VizBins |-> IF i <= Len(magnitudes) THEN magnitudes[i] ELSE 0]
      max_viz == CHOOSE v \in {padded[i] : i \in 1..VizBins} :
                   \A i \in 1..VizBins : padded[i] <= v
      viz == IF max_viz > 0
               THEN [i \in 1..VizBins |->
                       LET v == (padded[i] * SCALE) \div max_viz
                       IN  IF v < VizCutMilli THEN 0 ELSE v]
               ELSE padded
  IN  IF data.rms < RmsThreshold
        THEN [bands |-> <<0, 0, 0>>, viz |-> ZeroViz, gate |-> "rms"]
      ELSE IF SumSeq(magnitudes) < SpectrumGateTenths
        THEN [bands |-> <<0, 0, 0>>, viz |-> ZeroViz, gate |-> "spectrum"]
      ELSE IF total_energy < TotalThresholdTenths
        THEN [bands |-> <<0, 0, 0>>, viz |-> ZeroViz, gate |-> "energy"]
      ELSE [bands |-> <<(bass_energy * SCALE) \div total_energy,
                        (mids_energy * SCALE) \div total_energy,
                        (treble_energy * SCALE) \div total_energy>>,
            viz |-> viz, gate |-> "none"]

\* frames read from the stream: RMS in thousandths, magnitudes per bin in tenths
RawFrames ==
  { [rms |-> 0,  mags |-> <<0, 0, 0, 0, 0, 0, 0, 0, 0, 0, 0>>],           \* silence
    [rms |-> 4,  mags |-> <<0, 600, 0, 0, 300, 0, 0, 100, 0, 0, 0>>],     \* tonal, too quiet
    [rms |-> 20, mags |-> <<20, 20, 20, 20, 20, 20, 20, 20, 20, 20, 20>>], \* flat hiss
    [rms |-> 20, mags |-> <<500, 0, 0, 0, 0, 0, 0, 0, 0, 0, 500>>],       \* outside the bands
    [rms |-> 20, mags |-> <<0, 50, 0, 0, 30, 0, 0, 20, 0, 0, 0>>],        \* faint tones
    [rms |-> 90, mags |-> <<0, 600, 0, 0, 300, 0, 0, 100, 0, 0, 0>>],     \* 0.6 / 0.3 / 0.1
    [rms |-> 90, mags |-> <<0, 100, 0, 0, 100, 0, 0, 100, 0, 0, 0>>],     \* thirds
    [rms |-> 90, mags |-> <<10, 400, 10, 10, 300, 10, 10, 10, 10, 10, 10>>] } \* over hiss

\* milliradians of a full and of a half turn
TwoPiMilli == 6283
PiMilli == 3142

\* math.sin(x), x in milliradians, result in thousandths (Bhaskara's rational
\* approximation on each half turn)
Sin(x) ==
  LET y == x % TwoPiMilli
      \* 16 z (pi - z) / (5 pi^2 - 4 z (pi - z)), both sides divided by 64
      B(z) == LET q == (z * (PiMilli - z)) \div 64
              IN  (16 * q * SCALE) \div ((5 * PiMilli * PiMilli) \div 64 - 4 * q)
  IN  IF y < PiMilli THEN B(y) ELSE 0 - B(y - PiMilli)

\* math.cos(x)
Cos(x) == Sin(x + PiMilli \div 2)

\* the values of the waveform combobox
AllPatternTypes == {"wave", "pulse", "ramp", "steady", "chaos", "heartbeat"}
\* a configuration value that no branch recognizes
Unrecognized == "unknown"

\* return 0.5  # Default fallback
DefaultPatternValue == 500

\* a generator without the fallback: what no branch recognizes is treated as "wave"
GenerateWaveByDefault(time_val, type, rate_factor) ==
  (Sin((time_val * rate_factor) \div SCALE) + SCALE) \div 2

\* a generator whose "wave" runs at half the phase speed
GenerateSlowWave(time_val, type, rate_factor) ==
  (Sin((time_val * rate_factor) \div (2 * SCALE)) + SCALE) \div 2

\* generate_pattern_value(time_val, pattern_type, rate_factor): time_val in ms,
\* rate_factor in thousandths, result in thousandths
GeneratePatternValue(time_val, type, rate_factor) ==
  LET adjusted_time == (time_val * rate_factor) \div SCALE
      cycle == adjusted_time % TwoPiMilli
  IN  IF type = "wave" THEN (Sin(adjusted_time) + SCALE) \div 2
      ELSE IF type = "pulse" THEN (IF cycle < PiMilli THEN SCALE ELSE 0)
      ELSE IF type = "ramp" THEN (cycle * SCALE) \div TwoPiMilli
      ELSE IF type = "steady" THEN 700 + Sin(adjusted_time \div 2) \div 10
      ELSE IF type = "chaos"
        THEN ((Sin(adjusted_time) * Cos((adjusted_time * 1618) \div SCALE)) \div SCALE
               + SCALE) \div 2
      ELSE IF type = "heartbeat"
        THEN IF cycle < 300 THEN (Sin(cycle * 10) * Sin(cycle * 10)) \div SCALE
             ELSE IF cycle < 800
               THEN (Sin((cycle - 300) * 12) * Sin((cycle - 300) * 12)) \div SCALE
             ELSE 0
      ELSE DefaultPatternValue

\* random.random() in thousandths
RandomDraws == {0, 999}

\* "Apply randomness if enabled": randomness in thousandths, u the draw
ApplyRandomness(base_value, randomness, u) ==
  IF randomness > 0
    THEN Clamp01(base_value + ((u - 500) * 2 * randomness * 300) \div (SCALE * SCALE))
    ELSE base_value

\* self.pattern_current_intensity of one iteration of pattern_worker, from the slider
\* positions (percent), the clock and the random draw
PatternIntensityAt(time_val, type, ratePct, rndPct, u, maxPct) ==
  LET max_intensity == maxPct * 10
      rate_factor   == ratePct * 10
      randomness    == rndPct * 10
      base_value    == ApplyRandomness(GeneratePatternValue(time_val, type, rate_factor),
                                       randomness, u)
  IN  (base_value * max_intensity) \div SCALE

\* ---------------------------------------------------------------------------------
\* The two workers over computed inputs
\* ---------------------------------------------------------------------------------

\* the longest time the pattern clock is followed (ms)
MaxPatternTime == 7000
\* time between two readings of the pattern clock (ms): a fraction of a turn of the
\* fastest wave, or its whole period
PatternClockSteps == {700, TwoPiMilli}
\* positions of the Pattern Speed and Randomness sliders (percent)
RateValues == {0, 50, 100}
RandomnessValues == {0, 100}

\* self.stream.read(1024) and analyze_frequency_bands(audio_data, 44100) on the frame
AudioReadAnalyze ==
  /\ a_pc = "read"
  /\ stream
  /\ frames_left > 0
  /\ \E d \in RawFrames :
       /\ audio_data' = d
       /\ a_frame' = AnalyzeFrequencyBands(d).bands
  /\ frames_left' = frames_left - 1
  /\ a_pc' = "process"
  /\ UNCHANGED <<uiVars, sharedVars, patternVars, sinkVars, statVars, paramVars,
                 clockVars, visVars>>
  /\ UNCHANGED <<smoothed_intensity, a_age, pattern_rate, pattern_randomness, schedVars>>

\* one iteration of pattern_worker from "Get current pattern settings" to the
\* should_send test, the generator computed
PatternSample ==
  /\ p_pc = "gen"
  /\ Len(ui_update_queue) < MaxQueue
  /\ \E u \in RandomDraws :
       LET level == PatternIntensityAt(pattern_time, pattern_type, pattern_rate,
                                       pattern_randomness, u, pattern_intensity)
       IN  /\ pattern_current_intensity' = level
           /\ ui_update_queue' = Append(ui_update_queue,
                                        [k |-> "plevel", v |-> <<Pct(level)>>])
  /\ p_pc' = IF PatternShouldSend(device, pattern_enabled, p_age) THEN "put" ELSE "check"
  /\ since_type_change' = NoChange
  /\ UNCHANGED <<uiVars, audioVars, sinkVars, statVars, paramVars, visVars, fnVars, schedVars>>
  /\ UNCHANGED <<audio_enabled, pattern_enabled, running, stream, audio_intensity,
                 has_audio_velocity, audio_velocity, has_last_sent, last_sent_intensity,
                 cached_frequency_focus, cached_sensitivity, pattern_intensity, async_q>>
  /\ UNCHANGED <<p_age, pattern_type, pattern_time, p_elapsed>>

\* time passes on the pattern worker's clock
PatternClockAdvance ==
  /\ PatternThreadAlive
  /\ \E d \in PatternClockSteps :
       /\ p_elapsed + d <= MaxPatternTime
       /\ p_elapsed' = p_elapsed + d
  /\ UNCHANGED <<uiVars, sharedVars, audioVars, patternVars, sinkVars, statVars,
                 paramVars, visVars, fnVars, schedVars>>
  /\ UNCHANGED <<pattern_type, pattern_time, since_type_change>>

\* the workers running over every configuration value: one channel on with its
\* parameters drawn from the input sets, or both on with unrecognized types
FnInit ==
  \E ch \in {"audio", "pattern", "both"} :
    /\ ops = 0
    /\ ui_pc = "idle"
    /\ audio_enabled_var = (ch # "pattern") /\ pattern_enabled_var = (ch # "audio")
    /\ intensity = 0 /\ manual_intensity = 0
    /\ connected = FALSE /\ device = FALSE /\ conn_cb = "none"
    /\ smoothing_type \in (IF ch = "audio" THEN SmoothingTypes \cup {Unrecognized}
                           ELSE IF ch = "both" THEN {Unrecognized} ELSE {"adaptive"})
    /\ smoothing_strength = DefaultStrengthMilli
    /\ audio_bars = ZeroBars /\ pattern_level_var = 0
    /\ zero_audio_cb = FALSE /\ zero_pattern_cb = FALSE
    /\ audio_enabled = (ch # "pattern") /\ pattern_enabled = (ch # "audio")
    /\ running = TRUE
    /\ stream = (ch # "pattern")
    /\ audio_intensity = 0 /\ pattern_current_intensity = 0
    /\ has_audio_velocity = FALSE /\ audio_velocity = 0
    /\ has_last_sent = FALSE /\ last_sent_intensity = 0
    /\ cached_frequency_focus \in (IF ch = "audio" THEN FocusValues ELSE {0})
    /\ cached_sensitivity \in (IF ch = "audio" THEN SensitivityValues
                               ELSE {DefaultSensitivity})
    /\ pattern_intensity = DefaultPatternIntensity
    /\ ui_update_queue = <<>> /\ async_q = <<>>
    /\ a_pc = (IF ch # "pattern" THEN "check" ELSE "dead")
    /\ smoothed_intensity = 0 /\ a_frame = <<0, 0, 0>>
    /\ a_age = SendIntervalMs /\ frames_left = MaxFrames
    /\ p_pc = (IF ch # "audio" THEN "check" ELSE "dead") /\ p_age = SendIntervalMs
    /\ audio_threads = (IF ch # "pattern" THEN 1 ELSE 0)
    /\ pattern_threads = (IF ch # "audio" THEN 1 ELSE 0)
    /\ drain_scheduled = TRUE /\ stats_seen = 0
    /\ dev_level = 0 /\ sink_age = SendIntervalMs /\ stop_in_force = "no"
    /\ sink_ok = TRUE /\ commands_sent = 0
    /\ status_error = FALSE /\ device_error_cb = FALSE
    /\ sensitivity = cached_sensitivity /\ frequency_focus = cached_frequency_focus
    /\ verbose_logging = FALSE /\ cached_verbose_logging = FALSE
    /\ pattern_type \in (IF ch = "pattern" THEN AllPatternTypes \cup {Unrecognized}
                         ELSE IF ch = "both" THEN {Unrecognized} ELSE {"wave"})
    /\ pattern_time = 0 /\ p_elapsed = 0
    /\ since_type_change = NoChange
    /\ visualizer_enabled = TRUE /\ visualizer_animation = FALSE
    /\ visualizer_data = 0 /\ visualizer_smoothed = 0
    /\ audio_data = NoData
    /\ pattern_rate \in (IF ch = "pattern" THEN RateValues ELSE {DefaultPatternRate})
    /\ pattern_randomness \in (IF ch = "pattern" THEN RandomnessValues ELSE {0})

\* the operator moves the focus slider while the audio channel runs alone
FnNext ==
  \/ AudioCheck \/ AudioReadAnalyze \/ AudioProcess
  \/ PatternCheck \/ PatternSample \/ PatternClockAdvance
  \/ DrainItem \/ DrainDone
  \/ (p_pc = "dead" /\ \E f \in FocusValues : FrequencyFocusChanged(f))

FnSpec == FnInit /\ [][FnNext]_vars

\* one iteration of the pattern worker publishes its sample
PatternStep == p_pc = "gen" /\ p_pc' # "gen"

\* C22: an unrecognized configuration value falls back to a defined default and the
\* tick goes on: with an unknown smoothing type the audio iteration's smoothed value
\* is the target and the worker goes on to its next loop test; with an unknown
\* waveform the pattern iteration publishes the generator's default value 0.5 (with
\* the random offset and the scaling applied) and the worker goes on likewise.
C22_UnknownValueFallsBack ==
  [][/\ (a_pc = "process" /\ a_pc' # "process" /\ smoothing_type \notin SmoothingTypes)
          => /\ smoothed_intensity' = StepTarget
             /\ UNCHANGED <<has_audio_velocity, audio_velocity>>
             /\ a_pc' \in {"check", "put"}
     /\ (PatternStep /\ pattern_type \notin AllPatternTypes)
          => /\ pattern_current_intensity' \in
                  { (ApplyRandomness(DefaultPatternValue, pattern_randomness * 10, u)
                       * pattern_intensity * 10) \div SCALE : u \in RandomDraws }
             /\ p_pc' \in {"check", "put"}]_vars

\* both workers ran an iteration with unrecognized types and passed their loop tests
\* again: the smoothed value is the frame's non-zero target, the pattern level half
\* of the maximum
C22_Witness ==
  /\ smoothing_type = Unrecognized /\ pattern_type = Unrecognized
  /\ a_pc = "read" /\ frames_left < MaxFrames
  /\ StepTarget > 0 /\ smoothed_intensity = StepTarget
  /\ p_pc = "gen" /\ pattern_time > 0
  /\ pattern_current_intensity = (DefaultPatternValue * pattern_intensity) \div 100

\* the audio worker reads a frame and has it analyzed
AnalyzeStep == a_pc = "read" /\ a_pc' = "process"

\* the audio worker stores and processes the analysis of its frame
ProcessStep == a_pc = "process" /\ a_pc' # "process"

\* C23: for every frame whose RMS is below the silence threshold the analyzer returns
\* the band energies (0, 0, 0) and an all-zero 64-bin spectrum, through the first
\* return statement; the spectrum the worker stores for the visualizer is zero.
C23_SilentFrameAllZero ==
  [][/\ (AnalyzeStep /\ audio_data'.rms < RmsThreshold)
          => /\ a_frame' = <<0, 0, 0>>
             /\ AnalyzeFrequencyBands(audio_data').viz = ZeroViz
             /\ Len(AnalyzeFrequencyBands(audio_data').viz) = VizBins
             /\ AnalyzeFrequencyBands(audio_data').gate = "rms"
     /\ (ProcessStep /\ audio_data # NoData /\ audio_data.rms < RmsThreshold)
          => visualizer_data' = 0]_vars

\* a frame with plenty of spectral energy but an RMS below the threshold went through
\* a whole iteration: bands and spectrum are zero
C23_Witness ==
  /\ a_pc = "check" /\ frames_left < MaxFrames
  /\ audio_data.rms > 0 /\ audio_data.rms < RmsThreshold
  /\ SumSeq(audio_data.mags) >= TotalThresholdTenths
  /\ a_frame = <<0, 0, 0>> /\ visualizer_data = 0

\* what the three floor divisions of the normalisation can lose together (thousandths)
NormalizationSlack == 2

\* C24: for every frame the band energies returned by the analyzer are non-negative
\* and their sum is 0, all three being exactly 0, or 1 (up to the rounding of the
\* three divisions); a frame stopped by any of the three gates yields (0, 0, 0).
C24_BandsSumZeroOrOne ==
  [][AnalyzeStep =>
       /\ \A i \in 1..3 : a_frame'[i] >= 0
       /\ \/ a_frame' = <<0, 0, 0>>
          \/ a_frame'[1] + a_frame'[2] + a_frame'[3]
               \in (SCALE - NormalizationSlack)..SCALE
       /\ AnalyzeFrequencyBands(audio_data').gate # "none" => a_frame' = <<0, 0, 0>>]_vars

\* the second frame passed all three gates and came out normalised as 0.6 / 0.3 / 0.1,
\* the first having been reported as silence
C24_Witness ==
  /\ a_pc = "process" /\ frames_left = 0
  /\ AnalyzeFrequencyBands(audio_data).gate = "none"
  /\ a_frame = <<600, 300, 100>>
  /\ audio_bars[1] = 0 /\ audio_bars[2] = 0 /\ audio_bars[3] = 0
  /\ smoothed_intensity = 0

\* the bars item an audio iteration has just queued
QueuedBars == ui_update_queue'[Len(ui_update_queue')]

\* C25: at the ends of the focus range the frequency mix is the pure band: with focus
\* -1 the mix of an audio iteration is exactly the frame's bass energy, with focus 1
\* exactly its treble energy, for all band energies.
C25_MixPureAtFocusEnds ==
  [][ProcessStep =>
       /\ cached_frequency_focus = 0 - SCALE =>
            /\ CalculateFrequencyMix(a_frame[1], a_frame[2], a_frame[3],
                                     cached_frequency_focus) = a_frame[1]
            /\ QueuedBars.v[4] = Pct(a_frame[1])
       /\ cached_frequency_focus = SCALE =>
            /\ CalculateFrequencyMix(a_frame[1], a_frame[2], a_frame[3],
                                     cached_frequency_focus) = a_frame[3]
            /\ QueuedBars.v[4] = Pct(a_frame[3])]_vars

\* two frames analyzed as 0.6 / 0.3 / 0.1: the first was mixed with focus -1 and shows
\* 0.6 on the bars, the second with focus 1 and has 0.1 queued
C25_Witness ==
  /\ audio_bars[1] = Pct(600) /\ audio_bars[2] = Pct(300) /\ audio_bars[3] = Pct(100)
  /\ audio_bars[4] = Pct(600)
  /\ cached_frequency_focus = SCALE
  /\ Len(ui_update_queue) = 1
  /\ ui_update_queue[1].k = "bars"
  /\ ui_update_queue[1].v[1] = Pct(600) /\ ui_update_queue[1].v[3] = Pct(100)
  /\ ui_update_queue[1].v[4] = Pct(100)

\* 2 pi / rate_factor in ms, for a Pattern Speed slider at ratePct > 0
WavePeriod(ratePct) == (TwoPiMilli * SCALE) \div (ratePct * 10)

\* C26: the "wave" pattern is periodic with period 2 pi / rateFactor (for a rate above
\* 0): the generator returns at the worker's elapsed time what it returns one period
\* later, and so does the published intensity when no randomness is added; and the
\* intensity published by the pattern worker lies in [0, maxIntensity] for every
\* elapsed time, rate, waveform and randomness.
C26_WavePeriodicAndBounded ==
  [][PatternStep =>
       /\ pattern_current_intensity' >= 0
       /\ pattern_current_intensity' <= pattern_intensity * 10
       /\ (pattern_type = "wave" /\ pattern_rate > 0) =>
            /\ GeneratePatternValue(pattern_time + WavePeriod(pattern_rate), "wave",
                                    pattern_rate * 10)
                 = GeneratePatternValue(pattern_time, "wave", pattern_rate * 10)
            /\ pattern_randomness = 0 =>
                 pattern_current_intensity'
                   = PatternIntensityAt(pattern_time + WavePeriod(pattern_rate), "wave",
                                        pattern_rate, 0, 0, pattern_intensity)]_vars

\* the wave at full speed, sampled 700 ms plus one period after the start: the level
\* published is the level of the sample at 700 ms, away from the midline and below
\* the maximum
C26_Witness ==
  /\ pattern_type = "wave" /\ pattern_rate = 100 /\ pattern_randomness = 0
  /\ p_pc = "check"
  /\ pattern_time = 700 + WavePeriod(100)
  /\ pattern_current_intensity
       = PatternIntensityAt(700, "wave", 100, 0, 0, pattern_intensity)
  /\ pattern_current_intensity > (DefaultPatternValue * pattern_intensity) \div 100
  /\ pattern_current_intensity < pattern_intensity * 10

\* self._audio_velocity after "Update velocity" and the damping of a momentum step
MomentumVelocity(cur, target, dt, vel) ==
  LET v1   == (300 * vel + 700 * (target - cur) * 2) \div SCALE
      mult == IF target = 0 THEN 3 ELSE 1
  IN  (v1 * (SCALE - (600 * mult * dt) \div SCALE)) \div SCALE

\* new_intensity = current_intensity + self._audio_velocity * delta_time
MomentumNewIntensity(cur, target, dt, vel) ==
  cur + (MomentumVelocity(cur, target, dt, vel) * dt) \div SCALE

\* the velocity a momentum step starts from: 0 when the attribute is not there yet
VelocityBefore == IF has_audio_velocity THEN audio_velocity ELSE 0

\* C27: in smoothing type "momentum" a step forces the value to 0 and resets the
\* velocity to 0 only when the new value is below the cutoff and the target is 0;
\* otherwise, also for a zero target with a new value at or above the cutoff, it
\* yields current + velocity * delta_time clamped to [0, 1] and keeps the velocity.
C27_MomentumZeroOnlyBelowCutoffAtZeroTarget ==
  [][SmoothingStep("momentum") =>
       \E dt \in WideDeltaTimes :
         LET new == MomentumNewIntensity(smoothed_intensity, StepTarget, dt, VelocityBefore)
             vel == MomentumVelocity(smoothed_intensity, StepTarget, dt, VelocityBefore)
         IN  IF new < CutoffMilli /\ StepTarget = 0
               THEN smoothed_intensity' = 0 /\ audio_velocity' = 0
               ELSE smoothed_intensity' = Clamp01(new) /\ audio_velocity' = vel]_vars

\* min(1.0, delta_time / max(0.01, self.attack_time)), in thousandths
AttackFactor(dt) == Min(SCALE, (dt * SCALE) \div Max(10, AttackTimeMs))

\* the value after a step of the rule "rising targets move by the attack factor,
\* targets fallen to zero decay by current * (1 - min(0.95, dt / decayTime))"
AdaptiveRule(cur, target, dt) ==
  IF target > cur
    THEN cur + ((target - cur) * AttackFactor(dt)) \div SCALE
    ELSE (cur * (SCALE - Min(950, (dt * SCALE) \div DecayTimeMs))) \div SCALE

\* C28: in smoothing type "adaptive" a step towards a target fallen to zero leaves
\* current * (1 - min(0.95, delta_time / decayTime)), and a step towards a higher
\* target moves the value by the linear attack factor min(1, delta_time / attackTime)
\* (a result below the cutoff may be reported as 0).
C28_AdaptiveDecayAndAttack ==
  [][(SmoothingStep("adaptive")
        /\ (StepTarget > smoothed_intensity
              \/ (StepTarget = 0 /\ smoothed_intensity > 0))) =>
       \E dt \in WideDeltaTimes :
         LET r == AdaptiveRule(smoothed_intensity, StepTarget, dt)
         IN  \/ smoothed_intensity' = Clamp01(r)
             \/ r < CutoffMilli /\ smoothed_intensity' = 0]_vars

\* C29: switching the smoothing type leaves the accumulated smoothed value, the
\* published audio intensity and the momentum velocity as they are; the only state a
\* type creates is momentum's velocity, which comes into being in the first momentum
\* step and is taken as 0 by that step.
C29_SwitchKeepsSmootherState ==
  [][/\ smoothing_type' # smoothing_type =>
          UNCHANGED <<smoothed_intensity, audio_intensity,
                      has_audio_velocity, audio_velocity>>
     /\ has_audio_velocity' # has_audio_velocity =>
          /\ SmoothingStep("momentum") /\ has_audio_velocity'
          /\ \E dt \in WideDeltaTimes :
               LET new == MomentumNewIntensity(smoothed_intensity, StepTarget, dt, 0)
               IN  audio_velocity' = IF new < CutoffMilli \/ StepTarget = 0 THEN 0
                                     ELSE MomentumVelocity(smoothed_intensity,
                                                           StepTarget, dt, 0)]_vars

\* a frame was smoothed with momentum and the type then switched to "simple": the
\* value and the velocity that the momentum step left are still there
C29_Witness ==
  /\ smoothing_type = "simple" /\ a_pc = "check" /\ frames_left = MaxFrames - 1
  /\ has_audio_velocity /\ audio_velocity > 0
  /\ smoothed_intensity > 0 /\ audio_intensity = CapIntensity(smoothed_intensity)

\* C30: no shared per-channel state comes into being on first use: whenever a thread
\* looks at the momentum velocity (a momentum step of the audio worker, the emergency
\* stop) or at the last-sent intensity (the audio worker's send test for a zero
\* intensity), the field exists, having been defined at construction.
C30_SharedStateDefinedFromConstruction ==
  [][/\ SmoothingStep("momentum") => has_audio_velocity
     /\ (ui_pc = "idle" /\ ui_pc' = "es_cleanup") => has_audio_velocity
     /\ (ProcessStep /\ device /\ audio_enabled /\ a_age >= SendIntervalMs
           /\ audio_intensity' = 0) => has_last_sent]_vars

\* C31: whenever the audio channel is enabled (the box is checked, start_audio having
\* reported no error), an audio worker with an open stream is running, also when the
\* channel was switched off and on again before the previous worker had exited (a
\* worker that a failed read has ended is not counted here).
C31_EnabledChannelHasWorker ==
  (audio_enabled_var /\ a_pc # AudioAfterReadError) => (stream /\ AudioThreadAlive)

\* C32: once the audio channel is disabled and its worker has exited, audio_intensity
\* is 0 and so are the analysis results stored beside it, however stop_audio
\* interleaved with the worker's iteration in progress.
C32_DisabledChannelLeavesZero ==
  (~audio_enabled /\ ~audio_enabled_var /\ ui_pc = "idle" /\ ~AudioThreadAlive)
    => (audio_intensity = 0 /\ visualizer_data = 0)

\* ---------------------------------------------------------------------------------
\* The audio path over a source that falls silent
\* ---------------------------------------------------------------------------------

\* self.stream.read(1024) on a silent source: the frame is analyzed as (0, 0, 0); such
\* frames keep coming, they are not counted in frames_left
AudioReadSilence ==
  /\ a_pc = "read"
  /\ stream
  /\ a_frame' = <<0, 0, 0>>
  /\ a_pc' = "process"
  /\ UNCHANGED <<uiVars, sharedVars, fnVars,
                 schedVars, patternVars, sinkVars, statVars, paramVars,
                 clockVars, visVars>>
  /\ UNCHANGED <<smoothed_intensity, a_age, frames_left>>

\* The audio channel is started, at most MaxFrames frames carry sound and silence
\* follows for good; the operator may pick a smoothing type and move the strength
\* slider meanwhile.
SilenceNext ==
  \/ ToggleAudioOnStart
  \/ \E t \in SmoothingTypes : OnSmoothingTypeChanged(t)
  \/ \E v \in StrengthPositions : OnSmoothingStrengthChanged(v)
  \/ AudioCheck
  \/ AudioReadFrom(LoudOutputs)
  \/ AudioReadSilence
  \/ AudioProcess
  \/ DrainItem \/ DrainDone

\* the worker thread and the Tk event loop keep being scheduled
SilenceFairness ==
  /\ WF_vars(AudioCheck)
  /\ WF_vars(AudioReadSilence)
  /\ WF_vars(AudioProcess)
  /\ WF_vars(DrainItem)
  /\ WF_vars(DrainDone)

SilenceSpec == Init /\ [][SilenceNext]_vars /\ SilenceFairness

\* C33: with the audio channel enabled and the target held at 0, the smoothed audio
\* intensity reaches exactly 0 after finitely many steps and stays 0, for every
\* smoothing type and every strength the slider allows, 100% included.
C33_SilenceReachesZero == <>[](smoothed_intensity = 0)

\* process_ui_updates: update_func() raises (a Tk variable's set() failing); the inner
\* except catches queue.Empty only, so the outer handler logs and the method returns
\* without reaching root.after(20, self.process_ui_updates)
DrainItemRaises ==
  /\ ui_pc \in {"idle", "drain"}
  /\ ui_pc = "idle" => drain_scheduled
  /\ ui_update_queue # <<>>
  /\ Head(ui_update_queue).k \in {"bars", "plevel"}
  /\ ui_update_queue' = Tail(ui_update_queue)
  /\ ui_pc' = "idle"
  /\ drain_scheduled' = FALSE
  /\ UNCHANGED <<ops, audio_enabled_var, pattern_enabled_var, intensity, manual_intensity,
                 connected, device, conn_cb, smoothing_type, smoothing_strength,
                 audio_bars, pattern_level_var, zero_audio_cb, zero_pattern_cb>>
  /\ UNCHANGED <<audio_enabled, pattern_enabled, running, stream, audio_intensity,
                 pattern_current_intensity, has_audio_velocity, audio_velocity,
                 has_last_sent, last_sent_intensity, cached_frequency_focus,
                 cached_sensitivity, pattern_intensity, async_q>>
  /\ UNCHANGED <<audioVars, patternVars, sinkVars, statVars, paramVars, clockVars, visVars,
                 fnVars>>
  /\ UNCHANGED <<audio_threads, pattern_threads, stats_seen>>

\* The audio channel feeding the presentation queue, the Tk thread draining it; a queued
\* update may raise. The source delivers MaxFrames frames.
DrainNext ==
  \/ ToggleAudioOnStart \/ ToggleAudioOnAlive \/ ToggleAudioOff
  \/ AudioCheck \/ AudioRead \/ AudioProcess
  \/ ZeroAudioBars
  \/ DrainItem \/ DrainItemRaises \/ DrainDone

\* Tk runs every timer that is pending; the worker thread is scheduled
DrainFairness ==
  /\ WF_vars(DrainItem) /\ WF_vars(DrainDone) /\ WF_vars(ZeroAudioBars)
  /\ WF_vars(AudioCheck) /\ WF_vars(AudioRead) /\ WF_vars(AudioProcess)

DrainSpec == Init /\ [][DrainNext]_vars /\ DrainFairness

\* C34: the presentation drain never stops: every update a producer enqueued is
\* eventually executed, also after a queued update function raised an exception
\* (a non-empty queue is always emptied again).
C34_QueueAlwaysDrained == (ui_update_queue # <<>>) ~> (ui_update_queue = <<>>)

\* update_statistics, time_diff >= 1.0, up to stats_label.config(text=...): the counter is
\* read for the label; the Tk call lets the other threads run before the reset
UpdateStatisticsRead ==
  /\ ui_pc = "idle"
  /\ stats_seen' = commands_sent
  /\ ui_pc' = "stats"
  /\ UNCHANGED <<ops, audio_enabled_var, pattern_enabled_var, intensity, manual_intensity,
                 connected, device, conn_cb, smoothing_type, smoothing_strength,
                 audio_bars, pattern_level_var, zero_audio_cb, zero_pattern_cb>>
  /\ UNCHANGED <<sharedVars, audioVars, patternVars, sinkVars, statVars, paramVars,
                 clockVars, visVars, fnVars>>
  /\ UNCHANGED <<audio_threads, pattern_threads, drain_scheduled>>

\* update_statistics: self.commands_sent = 0, last_stats_time, root.after(1000, ...)
UpdateStatisticsReset ==
  /\ ui_pc = "stats"
  /\ commands_sent' = 0
  /\ stats_seen' = 0
  /\ ui_pc' = "idle"
  /\ UNCHANGED <<ops, audio_enabled_var, pattern_enabled_var, intensity, manual_intensity,
                 connected, device, conn_cb, smoothing_type, smoothing_strength,
                 audio_bars, pattern_level_var, zero_audio_cb, zero_pattern_cb>>
  /\ UNCHANGED <<sharedVars, audioVars, patternVars, sinkVars, paramVars,
                 clockVars, visVars, fnVars>>
  /\ UNCHANGED <<sink_ok, status_error, device_error_cb>>
  /\ UNCHANGED <<audio_threads, pattern_threads, drain_scheduled>>

\* The send loop against the rollup: the operator connects and moves the manual slider,
\* the pattern channel emits, the asyncio thread sends, the Tk thread rolls up in two steps.
StatsNext ==
  \/ ConnectToServer \/ UpdateConnectionStatus
  \/ \E v \in ManualPositions : ManualIntensityChanged(v)
  \/ TogglePatternOnStart
  \/ PatternCheck \/ PatternGen \/ PatternPut
  \/ DrainItem \/ DrainDone
  \/ SendIntensity
  \/ UpdateStatisticsRead \/ UpdateStatisticsReset
  \/ Tick

StatsSpec == Init /\ [][StatsNext]_vars

\* C35: no successful send is lost from the statistics: what a rollup resets away is
\* what it reported (between its read and its reset the counter still holds the count
\* put in the label), so reported counts plus the counter add up to the sends.
C35_RollupLosesNoSend == ui_pc = "stats" => commands_sent = stats_seen

\* C36: at most one audio worker thread and at most one pattern worker thread are alive
\* at any time, whatever the operator enables, disables or stops.
C36_AtMostOneWorkerEach == audio_threads <= 1 /\ pattern_threads <= 1

\* the audio channel was switched on again while its old worker was still running:
\* start_audio returned early and no second thread was started
C36_Witness ==
  /\ audio_threads = 1 /\ audio_enabled_var /\ ~stream
  /\ AudioThreadAlive
  /\ ops = MaxOps

\* The three emitting paths with a device: the operator connects, starts the channels and
\* moves the manual slider between its ends; the source delivers MaxFrames frames of its
\* choice and silence after that.
EmitNext ==
  \/ ConnectToServer \/ UpdateConnectionStatus
  \/ \E v \in FullManualPositions : ManualIntensityChanged(v)
  \/ ToggleAudioOnStart \/ TogglePatternOnStart
  \/ AudioCheck \/ AudioRead \/ AudioReadSilence \/ AudioProcess \/ AudioPut
  \/ PatternCheck \/ PatternGen \/ PatternPut
  \/ DrainItem \/ DrainDone
  \/ SendIntensity
  \/ Tick

EmitSpec == Init /\ [][EmitNext]_vars

\* C37: every intensity value passed to the actuator's command lies in [0, 1], whatever
\* the audio intensity, the pattern intensity and the manual slider are, on every
\* emitting path (each pending send_intensity and the level the actuator was given).
C37_CommandsWithinUnitRange ==
  /\ \A i \in 1..Len(async_q) : async_q[i] = StopCmd \/ async_q[i] \in 0..SCALE
  /\ dev_level \in 0..SCALE

\* the pattern path has sent 0.5 and now hands over the manual slider's 1.0, the largest
\* of the three
C37_Witness ==
  /\ async_q = <<SCALE>> /\ dev_level = 500
  /\ pattern_enabled /\ pattern_current_intensity < SCALE

\* C38: the audio path schedules a dispatch only when the rate-limit interval has elapsed
\* and the audio intensity is above 0 or the intensity last recorded as sent was above 0;
\* a zero-valued dispatch therefore follows a nonzero record and leaves a zero record, so
\* silence gets one zero dispatch after the last nonzero one and none before the first.
C38_AudioDispatchRule ==
  [][/\ (a_pc = "process" /\ a_pc' = "put")
          => /\ a_age >= SendIntervalMs
             /\ audio_intensity' > 0 \/ (has_last_sent /\ last_sent_intensity > 0)
     /\ (a_pc = "put" /\ a_pc' # "put" /\ audio_intensity = 0)
          => /\ has_last_sent /\ last_sent_intensity > 0
             /\ has_last_sent' /\ last_sent_intensity' = 0]_vars

\* the zero after the last nonzero dispatch is recorded, the interval has elapsed again
\* and the worker holds one more silent frame
C38_Witness ==
  /\ a_pc = "process" /\ a_frame = <<0, 0, 0>> /\ smoothed_intensity = 0
  /\ a_age >= SendIntervalMs
  /\ has_last_sent /\ last_sent_intensity = 0
  /\ device /\ audio_enabled

====
